---------------------------- MODULE Spec2Model ----------------------------
(***************************************************************************)
(* A model of the plan-space search engine of VHPOP with decompositions    *)
(* (src/plans.cc, src/plans.h): partial plans with their chains of steps,  *)
(* links and flaws, the refinement operators, and the search driver        *)
(* Plan::plan with its round-robin flaw orders and IDA* restarts.          *)
(*                                                                         *)
(* Chains are sequences whose first element is the head of the chain.      *)
(* A pointer that may be NULL is a sequence of length 0 (NULL) or 1.       *)
(***************************************************************************)
EXTENDS Integers, Sequences, FiniteSets, TLC

(***************************************************************************)
(* Bounds of the model.                                                    *)
(***************************************************************************)
\* Largest per-order search limit drawn for params->search_limits.
MaxSearchLimit == 12
\* Largest num_steps up to which the plan-space specification adds steps.
MaxPlanSteps == 4
\* Largest limit that flaw selection passes to the counts of refinements.
MaxCountLimit == 2

(***************************************************************************)
(* Program constants.                                                      *)
(***************************************************************************)
\* Plan::GOAL_ID = std::numeric_limits<int>::max()
GOAL_ID == 2147483647
\* std::numeric_limits<float>::infinity(), as a rank no finite rank reaches
Infinity == 1000000
\* size_t next_switch = 1000
NextSwitchInit == 1000
\* The value an unsigned size_t takes when 0 is decremented (2^64 - 1);
\* TLC's integers are 32 bits wide, so the largest of them stands for it.
SizeTMax == 2147483647
\* Doublings of next_switch after which 1000 * 2^k is 0 modulo 2^64.
NextSwitchWrap == 61
\* The dead-queue cleanup loop frees at most this many plans per iteration.
DeadQueueQuota == 4

(***************************************************************************)
(* Sequence helpers.                                                       *)
(***************************************************************************)
Range(s) == {s[i] : i \in 1..Len(s)}

RECURSIVE SeqConcatAll(_)
SeqConcatAll(ss) ==
    IF Len(ss) = 0 THEN <<>> ELSE Head(ss) \o SeqConcatAll(Tail(ss))

\* Chain<T>::remove: the chain without its first element equal to x.
RECURSIVE ChainRemove(_, _)
ChainRemove(chain, x) ==
    IF Len(chain) = 0 THEN <<>>
    ELSE IF Head(chain) = x THEN Tail(chain)
    ELSE <<Head(chain)>> \o ChainRemove(Tail(chain), x)

Min(a, b) == IF a < b THEN a ELSE b

(***************************************************************************)
(* Formulas: a closed variant TRUE | FALSE | literal | timed literal |     *)
(* conjunction | disjunction | equality | inequality | existential |       *)
(* universal.  A literal has a predicate, one argument ("" for a nullary   *)
(* predicate) and a polarity; an argument is an object name or a variable  *)
(* name (beginning with "?").                                              *)
(***************************************************************************)
FTrue == [kind |-> "true"]
FFalse == [kind |-> "false"]
Atom(p, a) == [kind |-> "lit", pred |-> p, arg |-> a, neg |-> FALSE]
Negation(p, a) == [kind |-> "lit", pred |-> p, arg |-> a, neg |-> TRUE]
\* Inequality::make(var, var_id, term, term_id); a step id of 0 is
\* "the step the formula is admitted for".
Inequality(v, vid, t, tid) ==
    [kind |-> "neq", var |-> v, var_id |-> vid, term |-> t, term_id |-> tid]
Equality(v, vid, t, tid) ==
    [kind |-> "eq", var |-> v, var_id |-> vid, term |-> t, term_id |-> tid]

\* TimedLiteral: a literal that is to hold at the given time of its step
TimedLiteral(l, w) == [kind |-> "timed", literal |-> l, when |-> w]
\* Exists and Forall, quantifying one variable over the objects
Exists(v, b) == [kind |-> "exists", var |-> v, body |-> b]
Forall(v, b) == [kind |-> "forall", var |-> v, body |-> b]

Tautology(f) == f.kind = "true"
Contradiction(f) == f.kind = "false"

\* operator&& of formulas: TRUE is the unit, FALSE absorbs, conjunctions
\* are flattened.
FAnd(f, g) ==
    IF Contradiction(f) \/ Contradiction(g) THEN FFalse
    ELSE IF Tautology(f) THEN g
    ELSE IF Tautology(g) THEN f
    ELSE [kind |-> "and",
          fs |-> (IF f.kind = "and" THEN f.fs ELSE <<f>>)
                 \o (IF g.kind = "and" THEN g.fs ELSE <<g>>)]

\* operator|| of formulas: FALSE is the unit, TRUE absorbs, disjunctions
\* are flattened.
FOr(f, g) ==
    IF Tautology(f) \/ Tautology(g) THEN FTrue
    ELSE IF Contradiction(f) THEN g
    ELSE IF Contradiction(g) THEN f
    ELSE [kind |-> "or",
          fs |-> (IF f.kind = "or" THEN f.fs ELSE <<f>>)
                 \o (IF g.kind = "or" THEN g.fs ELSE <<g>>)]

IsVariable(t) == t \in {"?x", "?y", "?z"}

(***************************************************************************)
(* Actions, effects and problems.                                          *)
(***************************************************************************)
Effect(l) == [literal |-> l, when |-> "AT_END", condition |-> FTrue,
              link_condition |-> FTrue]
CondEffect(l, c) == [literal |-> l, when |-> "AT_END", condition |-> c,
                     link_condition |-> FTrue]
Action(n, ps, c, es, comp) ==
    [name |-> n, parameters |-> ps, condition |-> c, effects |-> es,
     composite |-> comp]
Step(i, a) == [id |-> i, action |-> a]

\* The decomposition "drive" of the composite action "travel": pseudo-steps
\* (dummy final first), no bindings, no extra orderings, and internal links
\* from the dummy initial step to the real step and on to the dummy final.
\* Pseudo-step ids are negative, so they never meet a plan-level id.
DriveDecomposition ==
    [action |-> "travel", name |-> "drive",
     pseudo_steps |-> << Step(-1, "<final>"), Step(-2, "<initial>"),
                         Step(-3, "go") >>,
     dummy_initial_step_id |-> -2,
     dummy_final_step_id |-> -1,
     binding_list |-> <<>>,
     ordering_list |-> << [before_id |-> -2, before_time |-> "AT_END",
                           after_id |-> -1, after_time |-> "AT_START"] >>,
     link_list |-> << [from_id |-> -2, effect_time |-> "AT_END",
                       to_id |-> -3, condition |-> Atom("fuel", ""),
                       condition_time |-> "AT_START"],
                      [from_id |-> -3, effect_time |-> "AT_END",
                       to_id |-> -1, condition |-> Atom("there", ""),
                       condition_time |-> "AT_START"] >>,
     pseudo_actions |-> <<
        Action("<initial>", <<>>, FTrue, << Effect(Atom("fuel", "")) >>, FALSE),
        Action("<final>", <<>>, FAnd(Atom("there", ""), Atom("key", "")),
               <<>>, FALSE) >>]

\* A decomposition of "travel" whose bindings are inconsistent.
WalkDecomposition ==
    [action |-> "travel", name |-> "walk",
     pseudo_steps |-> << Step(-1, "<wfinal>"), Step(-2, "<winitial>"),
                         Step(-3, "hop") >>,
     dummy_initial_step_id |-> -2,
     dummy_final_step_id |-> -1,
     binding_list |-> << [var |-> "?x", var_id |-> -3, term |-> "o1",
                          term_id |-> 0, equal |-> TRUE],
                         [var |-> "?x", var_id |-> -3, term |-> "o2",
                          term_id |-> 0, equal |-> TRUE] >>,
     ordering_list |-> <<>>,
     link_list |-> <<>>,
     pseudo_actions |-> <<
        Action("<winitial>", <<>>, FTrue, <<>>, FALSE),
        Action("<wfinal>", <<>>, FTrue, <<>>, FALSE) >>]

Problem(objs, init, goal, acts, stat, decomps) ==
    [objects |-> objs, init |-> init, goal |-> goal, actions |-> acts,
     static |-> stat, decompositions |-> decomps]

\* The problems the search is run on.
Problems == <<
    \* 1: the empty goal
    Problem({"o1"}, <<>>, FTrue, <<>>, {}, <<>>),
    \* 2: an inconsistent goal
    Problem({"o1"}, <<>>, FFalse, <<>>, {}, <<>>),
    \* 3: action a achieves p; goal p
    Problem({"o1"}, <<>>, Atom("p", ""),
            << Action("a", <<>>, FTrue, << Effect(Atom("p", "")) >>, FALSE) >>,
            {}, <<>>),
    \* 4: a threat: a achieves p, b achieves q and deletes p; goal p and q
    Problem({"o1"}, <<>>, FAnd(Atom("p", ""), Atom("q", "")),
            << Action("a", <<>>, FTrue, << Effect(Atom("p", "")) >>, FALSE),
               Action("b", <<>>, FTrue,
                      << Effect(Atom("q", "")), Effect(Negation("p", "")) >>,
                      FALSE) >>,
            {}, <<>>),
    \* 5: a static predicate true initially, and a negative goal
    Problem({"o1", "o2"}, << Effect(Atom("s", "o1")) >>,
            FAnd(Atom("s", "o1"), Negation("s", "o2")),
            <<>>, {"s"}, <<>>),
    \* 6: a disjunctive goal with one achievable disjunct
    Problem({"o1"}, <<>>, FOr(Atom("p", ""), Atom("q", "")),
            << Action("a", <<>>, FTrue, << Effect(Atom("p", "")) >>, FALSE) >>,
            {}, <<>>),
    \* 7: schematic actions: mv(?x) achieves at(?x), n(?y) achieves p and
    \* needs ?y to differ from every object, m(?z, ?y) achieves p
    Problem({"o1", "o2"}, <<>>, FAnd(Atom("at", "o1"), Atom("p", "")),
            << Action("mv", <<"?x">>, FTrue, << Effect(Atom("at", "?x")) >>,
                      FALSE),
               Action("n", <<"?y">>,
                      FAnd(Inequality("?y", 0, "o1", 0),
                           Inequality("?y", 0, "o2", 0)),
                      << Effect(Atom("p", "")) >>, FALSE),
               Action("m", <<"?z", "?y">>, FTrue,
                      << Effect(Atom("p", "")) >>, FALSE) >>,
            {}, <<>>),
    \* 8: a schematic threat: del(?x) achieves d and deletes at(?x)
    Problem({"o1", "o2"}, << Effect(Atom("at", "o1")) >>,
            FAnd(Atom("at", "o1"), Atom("d", "")),
            << Action("del", <<"?x">>, FTrue,
                      << Effect(Atom("d", "")), Effect(Negation("at", "?x")) >>,
                      FALSE) >>,
            {}, <<>>),
    \* 9: the composite action travel achieves there and arrived; its
    \* decompositions are drive and walk; go achieves there
    Problem({"o1", "o2"},
            << Effect(Atom("key", "")), Effect(Atom("fuel", "")) >>,
            FAnd(Atom("there", ""), Atom("arrived", "")),
            << Action("travel", <<>>, FTrue,
                      << Effect(Atom("there", "")),
                         Effect(Atom("arrived", "")) >>, TRUE),
               Action("go", <<>>, Atom("fuel", ""),
                      << Effect(Atom("there", "")) >>, FALSE),
               Action("hop", <<"?x">>, FTrue, <<>>, FALSE) >>,
            {}, << DriveDecomposition, WalkDecomposition >>),
    \* 10: a goal nothing achieves
    Problem({"o1"}, <<>>, Atom("p", ""), <<>>, {}, <<>>),
    \* 11: the goal is one static atom that holds initially
    Problem({"o1"}, << Effect(Atom("s", "o1")) >>, Atom("s", "o1"),
            <<>>, {"s"}, <<>>),
    \* 12: mvx(?x) achieves at(?x) and needs ?x to differ from o1; goal
    \* at(o1)
    Problem({"o1", "o2"}, <<>>, Atom("at", "o1"),
            << Action("mvx", <<"?x">>, Inequality("?x", 0, "o1", 0),
                      << Effect(Atom("at", "?x")) >>, FALSE) >>,
            {}, <<>>),
    \* 13: the composite action trip has no decomposition
    Problem({"o1"}, <<>>, Atom("away", ""),
            << Action("trip", <<>>, FTrue, << Effect(Atom("away", "")) >>,
                      TRUE) >>,
            {}, <<>>),
    \* 14: a threat between two steps: at(o1) holds initially and put
    \* achieves it, use needs at(o1) and achieves q, clr(?x) achieves r and
    \* deletes at(?x); goal q and r
    Problem({"o1", "o2"}, << Effect(Atom("at", "o1")) >>,
            FAnd(Atom("q", ""), Atom("r", "")),
            << Action("put", <<>>, FTrue, << Effect(Atom("at", "o1")) >>,
                      FALSE),
               Action("use", <<>>, Atom("at", "o1"),
                      << Effect(Atom("q", "")) >>, FALSE),
               Action("clr", <<"?x">>, FTrue,
                      << Effect(Atom("r", "")),
                         Effect(Negation("at", "?x")) >>, FALSE) >>,
            {}, <<>>),
    \* 15: a disjunctive precondition: w(?x) achieves at(?x) and needs g(?x)
    \* or ?x other than o1; goal at(o1) and at(o2)
    Problem({"o1", "o2"}, <<>>, FAnd(Atom("at", "o1"), Atom("at", "o2")),
            << Action("w", <<"?x">>,
                      FOr(Atom("g", "?x"), Inequality("?x", 0, "o1", 0)),
                      << Effect(Atom("at", "?x")) >>, FALSE) >>,
            {}, <<>>),
    \* 16: negated preconditions: at(o1) holds initially, n(?x) needs
    \* at(?x) not to hold and achieves h(?x) and at(o2), f(?x) needs
    \* neither at(?x) nor at(o1) to hold and achieves k; goal h(o1) and k
    Problem({"o1", "o2"}, << Effect(Atom("at", "o1")) >>,
            FAnd(Atom("h", "o1"), Atom("k", "")),
            << Action("n", <<"?x">>, Negation("at", "?x"),
                      << Effect(Atom("h", "?x")),
                         Effect(Atom("at", "o2")) >>, FALSE),
               Action("f", <<"?x">>,
                      FAnd(Negation("at", "?x"), Negation("at", "o1")),
                      << Effect(Atom("k", "")) >>, FALSE) >>,
            {}, <<>>),
    \* 17: threats around an expansion: travel also deletes fuel, which
    \* the step go of its decomposition drive needs, and go deletes arrived,
    \* which travel achieves for the goal
    Problem({"o1"},
            << Effect(Atom("key", "")), Effect(Atom("fuel", "")) >>,
            Atom("arrived", ""),
            << Action("travel", <<>>, FTrue,
                      << Effect(Atom("arrived", "")),
                         Effect(Negation("fuel", "")) >>, TRUE),
               Action("go", <<>>, Atom("fuel", ""),
                      << Effect(Atom("there", "")),
                         Effect(Negation("arrived", "")) >>, FALSE) >>,
            {}, << DriveDecomposition >>)
>>

NumProblems == Len(Problems)

(***************************************************************************)
(* Bindings: equivalence classes of variables and objects with inequality  *)
(* constraints.  A bindings structure is the set of Binding constraints it *)
(* holds; a node is <<name, step id>>, an object having step id 0.         *)
(***************************************************************************)
Binding(v, vid, t, tid, eq) ==
    [var |-> v, var_id |-> vid, term |-> t, term_id |-> tid, equal |-> eq]

VarNode(b) == <<b.var, b.var_id>>
TermNode(b) == <<b.term, IF IsVariable(b.term) THEN b.term_id ELSE 0>>
IsObjectNode(n) == ~IsVariable(n[1])

\* Bindings::EMPTY
EmptyBindings == {}

\* The codesignation class of node x.
ClassOf(B, x) ==
    LET E == {<<VarNode(b), TermNode(b)>> : b \in {c \in B : c.equal}}
        RECURSIVE Grow(_)
        Grow(S) ==
            LET S2 == S \cup {e[2] : e \in {d \in E : d[1] \in S}}
                        \cup {e[1] : e \in {d \in E : d[2] \in S}}
            IN IF S2 = S THEN S ELSE Grow(S2)
    IN Grow({x})

\* No class holds two objects, and no inequality relates two members of
\* one class.
ConsistentBindings(B) ==
    \A b \in B :
        LET c == ClassOf(B, VarNode(b))
        IN /\ Cardinality({n \in c : IsObjectNode(n)}) <= 1
           /\ (~b.equal) => (TermNode(b) \notin c)

\* Bindings::add(list): the bindings with the list added, or NULL.
BindingsAdd(B, list) ==
    LET B2 == B \cup Range(list)
    IN IF ConsistentBindings(B2) THEN <<B2>> ELSE <<>>

VarIndex(v) == CHOOSE i \in 1..3 : <<"?x", "?y", "?z">>[i] = v

NodeBefore(n1, n2) ==
    \/ n1[2] < n2[2]
    \/ n1[2] = n2[2] /\ VarIndex(n1[1]) <= VarIndex(n2[1])

\* Bindings::binding(v, step_id): the object the variable is bound to, or
\* the representative variable of its class.
BindingOf(B, v, sid) ==
    LET c == ClassOf(B, <<v, sid>>)
        objs == {n \in c : IsObjectNode(n)}
    IN IF objs # {} THEN (CHOOSE n \in objs : TRUE)[1]
       ELSE (CHOOSE n \in c : \A m \in c : NodeBefore(n, m))[1]

\* Bindings::unify on two atoms: the most general unifier as a binding
\* list, or NULL when the atoms do not unify under the bindings.
UnifyAtoms(B, a1, id1, a2, id2) ==
    IF a1.pred # a2.pred THEN <<>>
    ELSE IF ~IsVariable(a1.arg) /\ ~IsVariable(a2.arg)
         THEN (IF a1.arg = a2.arg THEN << <<>> >> ELSE <<>>)
    ELSE LET mgu == IF ~IsVariable(a1.arg)
                    THEN << Binding(a2.arg, id2, a1.arg, 0, TRUE) >>
                    ELSE << Binding(a1.arg, id1, a2.arg,
                                    IF IsVariable(a2.arg) THEN id2 ELSE 0,
                                    TRUE) >>
         IN IF ConsistentBindings(B \cup Range(mgu)) THEN <<mgu>> ELSE <<>>

\* Bindings::unify on two literals: they must have the same polarity.
Unify(B, l1, id1, l2, id2) ==
    IF l1.neg # l2.neg THEN <<>> ELSE UnifyAtoms(B, l1, id1, l2, id2)

\* Bindings::affects: the first literal is the negation of an atom that
\* unifies with the second, or the other way round.
Affects(B, l1, id1, l2, id2) ==
    IF l1.neg = l2.neg THEN <<>> ELSE UnifyAtoms(B, l2, id2, l1, id1)

(***************************************************************************)
(* Orderings (BinaryOrderings): a transitively closed set of pairs         *)
(* <<before, after>> of step ids; step 0 precedes and the goal step        *)
(* follows every other step without a pair saying so.                      *)
(***************************************************************************)
EmptyOrderings == {}

TimeOrd(t) == IF t = "AT_START" THEN 0 ELSE 1

Before(O, id1, id2) ==
    /\ id1 # id2
    /\ id1 # GOAL_ID
    /\ id2 # 0
    /\ (id1 = 0 \/ id2 = GOAL_ID \/ <<id1, id2>> \in O)

\* Orderings::possibly_before
PossiblyBefore(O, id1, t1, id2, t2) ==
    id1 # id2 /\ ~Before(O, id2, id1)

\* Orderings::possibly_not_after
PossiblyNotAfter(O, id1, t1, id2, t2) ==
    IF id1 = id2 THEN TimeOrd(t1) <= TimeOrd(t2) ELSE ~Before(O, id2, id1)

\* Orderings::possibly_not_before
PossiblyNotBefore(O, id1, t1, id2, t2) ==
    IF id1 = id2 THEN TimeOrd(t1) >= TimeOrd(t2) ELSE ~Before(O, id1, id2)

\* Orderings::possibly_concurrent
PossiblyConcurrent(O, id1, id2) ==
    /\ id1 # id2
    /\ {id1, id2} \cap {0, GOAL_ID} = {}
    /\ ~Before(O, id1, id2)
    /\ ~Before(O, id2, id1)

Ordering(b, t1, a, t2) ==
    [before_id |-> b, before_time |-> t1, after_id |-> a, after_time |-> t2]

\* Orderings::refine(ordering): the orderings with the ordering added and
\* closed, the same orderings when they already hold it, or NULL when it
\* contradicts them.
Refine(O, o) ==
    IF o.before_id = o.after_id \/ Before(O, o.after_id, o.before_id)
       \/ o.before_id = GOAL_ID \/ o.after_id = 0
    THEN <<>>
    ELSE IF Before(O, o.before_id, o.after_id) THEN <<O>>
    ELSE LET O1 == O \cup {<<o.before_id, o.after_id>>}
             O2 == O1 \cup {<<p[1], o.after_id>> :
                              p \in {q \in O : q[2] = o.before_id}}
             O3 == O2 \cup {<<p[1], q[2]>> :
                              p \in {r \in O2 : r[2] = o.after_id},
                              q \in {r \in O : r[1] = o.after_id}}
         IN <<O3>>

(***************************************************************************)
(* The search context: the problem and the planning parameters (the        *)
(* file-level statics params, domain and problem of plans.cc).             *)
(***************************************************************************)
Context(pid, strip, ground) ==
    [problem |-> Problems[pid], strip_static_preconditions |-> strip,
     ground_actions |-> ground]

\* problem.init_action(): a ground action whose effects are the initial atoms
InitAction(cx) == Action("<init>", <<>>, FTrue, cx.problem.init, FALSE)

\* goal_action: named "", its condition is the goal of the problem
GoalAction(cx) == Action("", <<>>, cx.problem.goal, <<>>, FALSE)

PseudoActions(cx) ==
    SeqConcatAll([i \in 1..Len(cx.problem.decompositions) |->
                     cx.problem.decompositions[i].pseudo_actions])

\* step.action(): the action a step's name stands for
ActionOf(cx, name) ==
    IF name = "<init>" THEN InitAction(cx)
    ELSE IF name = "" THEN GoalAction(cx)
    ELSE LET all == cx.problem.actions \o PseudoActions(cx)
         IN all[CHOOSE i \in 1..Len(all) : all[i].name = name]

\* action.name().substr(0, 1) == "<"
IsDummyName(n) ==
    n \in {"<init>", "<initial>", "<final>", "<winitial>", "<wfinal>"}

\* PredicateTable::static_predicate
StaticPredicate(cx, pred) == pred \in cx.problem.static

ObjectList(cx) ==
    SelectSeq(<<"o1", "o2", "o3">>, LAMBDA o : o \in cx.problem.objects)

OpenCondition(sid, c, w) == [step_id |-> sid, condition |-> c, when |-> w]
IsLiteralCond(oc) == oc.condition.kind = "lit"

\* Formula::substitution of an object for a variable.  A binding literal
\* whose two terms have become objects is the constant its terms decide.
RECURSIVE Substitution(_, _, _)
Substitution(f, v, o) ==
    CASE f.kind = "lit" -> IF f.arg = v THEN [f EXCEPT !.arg = o] ELSE f
      [] f.kind = "timed" ->
             [f EXCEPT !.literal = Substitution(f.literal, v, o)]
      [] f.kind \in {"eq", "neq"} ->
             LET t1 == IF f.var = v THEN o ELSE f.var
                 t2 == IF f.term = v THEN o ELSE f.term
                 same == IF f.var = v /\ f.term = v THEN TRUE ELSE t1 = t2
             IN IF (f.var = v /\ f.term = v)
                   \/ (~IsVariable(t1) /\ ~IsVariable(t2))
                THEN (IF same = (f.kind = "eq") THEN FTrue ELSE FFalse)
                ELSE IF ~IsVariable(t1)
                THEN [f EXCEPT !.var = t2, !.var_id = f.term_id,
                               !.term = t1, !.term_id = 0]
                ELSE [f EXCEPT !.term = t2]
      [] f.kind = "and" ->
             LET Conj[i \in 0..Len(f.fs)] ==
                     IF i = 0 THEN FTrue
                     ELSE FAnd(Conj[i - 1], Substitution(f.fs[i], v, o))
             IN Conj[Len(f.fs)]
      [] f.kind = "or" ->
             LET Disj[i \in 0..Len(f.fs)] ==
                     IF i = 0 THEN FFalse
                     ELSE FOr(Disj[i - 1], Substitution(f.fs[i], v, o))
             IN Disj[Len(f.fs)]
      [] f.kind \in {"exists", "forall"} ->
             IF f.var = v THEN f
             ELSE LET b == Substitution(f.body, v, o)
                  IN IF b.kind \in {"true", "false"} THEN b
                     ELSE [f EXCEPT !.body = b]
      [] OTHER -> f

\* Forall::universal_base: the conjunction of the instances of the body
\* over the objects of the problem.
universal_base(cx, forall) ==
    LET objects == ObjectList(cx)
        Conj[i \in 0..Len(objects)] ==
            IF i = 0 THEN FTrue
            ELSE FAnd(Conj[i - 1],
                      Substitution(forall.body, forall.var, objects[i]))
    IN Conj[Len(objects)]

(***************************************************************************)
(* add_goal: admits a formula as open conditions and bindings.             *)
(* The result holds the return value (ok), whether "unknown kind of goal"  *)
(* was thrown, and the three in/out arguments.                             *)
(***************************************************************************)
RECURSIVE AddGoalLoop(_, _, _, _, _, _, _)
AddGoalLoop(cx, goals, open_conds, num_open_conds, new_bindings, step_id, test_only) ==
    IF Len(goals) = 0
    THEN [ok |-> TRUE, thrown |-> FALSE, open_conds |-> open_conds,
          num_open_conds |-> num_open_conds, new_bindings |-> new_bindings]
    ELSE
    LET goal == goals[Len(goals)]
        rest == SubSeq(goals, 1, Len(goals) - 1)
    IN CASE goal.kind = "lit" ->
              AddGoalLoop(cx, rest,
                  IF ~test_only
                     /\ ~(cx.strip_static_preconditions
                          /\ StaticPredicate(cx, goal.pred))
                  THEN <<OpenCondition(step_id, goal, "AT_START")>>
                       \o open_conds
                  ELSE open_conds,
                  num_open_conds + 1, new_bindings, step_id, test_only)
         [] goal.kind = "timed" ->
              AddGoalLoop(cx, rest,
                  IF ~test_only
                     /\ ~(cx.strip_static_preconditions
                          /\ StaticPredicate(cx, goal.literal.pred))
                  THEN <<OpenCondition(step_id, goal.literal, goal.when)>>
                       \o open_conds
                  ELSE open_conds,
                  num_open_conds + 1, new_bindings, step_id, test_only)
         [] goal.kind = "and" ->
              AddGoalLoop(cx, rest \o goal.fs, open_conds, num_open_conds,
                          new_bindings, step_id, test_only)
         [] goal.kind = "exists" ->
              AddGoalLoop(cx, rest \o <<goal.body>>, open_conds,
                          num_open_conds, new_bindings, step_id, test_only)
         [] goal.kind = "forall" ->
              AddGoalLoop(cx, rest \o <<universal_base(cx, goal)>>,
                          open_conds, num_open_conds, new_bindings, step_id,
                          test_only)
         [] goal.kind = "or" ->
              AddGoalLoop(cx, rest,
                  IF ~test_only
                  THEN <<OpenCondition(step_id, goal, "AT_START")>>
                       \o open_conds
                  ELSE open_conds,
                  num_open_conds + 1, new_bindings, step_id, test_only)
         [] goal.kind \in {"eq", "neq"} ->
              AddGoalLoop(cx, rest, open_conds, num_open_conds,
                  new_bindings \o
                  << Binding(goal.var,
                             IF goal.var_id # 0 THEN goal.var_id ELSE step_id,
                             goal.term,
                             IF goal.term_id # 0 THEN goal.term_id
                             ELSE step_id,
                             goal.kind = "eq") >>,
                  step_id, test_only)
         [] OTHER ->
              [ok |-> FALSE, thrown |-> TRUE, open_conds |-> open_conds,
               num_open_conds |-> num_open_conds,
               new_bindings |-> new_bindings]

\* add_goal without its tests of the two constants.
add_goal_without_constant_tests(cx, open_conds, num_open_conds, new_bindings, goal, step_id, test_only) ==
    AddGoalLoop(cx, <<goal>>, open_conds, num_open_conds, new_bindings,
                step_id, test_only)

\* add_goal that strips static preconditions whatever the parameters say.
add_goal_always_stripping(cx, open_conds, num_open_conds, new_bindings, goal, step_id, test_only) ==
    IF Tautology(goal) \/ Contradiction(goal)
    THEN [ok |-> Tautology(goal), thrown |-> FALSE,
          open_conds |-> open_conds, num_open_conds |-> num_open_conds,
          new_bindings |-> new_bindings]
    ELSE AddGoalLoop([cx EXCEPT !.strip_static_preconditions = TRUE],
                     <<goal>>, open_conds, num_open_conds, new_bindings,
                     step_id, test_only)

\* add_goal that gives every open condition the time AT_START.
add_goal_all_at_start(cx, open_conds, num_open_conds, new_bindings, goal, step_id, test_only) ==
    IF Tautology(goal)
    THEN [ok |-> TRUE, thrown |-> FALSE, open_conds |-> open_conds,
          num_open_conds |-> num_open_conds, new_bindings |-> new_bindings]
    ELSE IF Contradiction(goal)
    THEN [ok |-> FALSE, thrown |-> FALSE, open_conds |-> open_conds,
          num_open_conds |-> num_open_conds, new_bindings |-> new_bindings]
    ELSE LET returned == AddGoalLoop(cx, <<goal>>, open_conds,
                                     num_open_conds, new_bindings, step_id,
                                     test_only)
         IN [returned EXCEPT !.open_conds =
                [i \in 1..Len(returned.open_conds) |->
                    [returned.open_conds[i] EXCEPT !.when = "AT_START"]]]

add_goal(cx, open_conds, num_open_conds, new_bindings, goal, step_id, test_only) ==
    IF Tautology(goal)
    THEN [ok |-> TRUE, thrown |-> FALSE, open_conds |-> open_conds,
          num_open_conds |-> num_open_conds, new_bindings |-> new_bindings]
    ELSE IF Contradiction(goal)
    THEN [ok |-> FALSE, thrown |-> FALSE, open_conds |-> open_conds,
          num_open_conds |-> num_open_conds, new_bindings |-> new_bindings]
    ELSE AddGoalLoop(cx, <<goal>>, open_conds, num_open_conds, new_bindings,
                     step_id, test_only)

(***************************************************************************)
(* Links and threats.                                                      *)
(***************************************************************************)
\* Link(from_id, effect_time, open_cond)
Link(from, et, oc) ==
    [from_id |-> from, effect_time |-> et, to_id |-> oc.step_id,
     condition |-> oc.condition, condition_time |-> oc.when]

Unsafe(l, sid, e) == [link |-> l, step_id |-> sid, effect |-> e]

Reverse(s) == [i \in 1..Len(s) |-> s[Len(s) + 1 - i]]

\* The effects of step s that threaten link l, in the order the loops of
\* link_threats and step_threats meet them.
ThreateningEffects(cx, l, s, O, B) ==
    LET lt1 == l.effect_time
        lt2 == l.condition_time
        effects == ActionOf(cx, s.action).effects
    IN IF PossiblyNotAfter(O, l.from_id, lt1, s.id, "AT_END")
          /\ PossiblyNotBefore(O, l.to_id, lt2, s.id, "AT_START")
       THEN SelectSeq(effects, LAMBDA e :
              /\ ~Contradiction(e.link_condition)
              /\ ~(s.id = l.to_id /\ TimeOrd(e.when) >= TimeOrd(lt2))
              /\ PossiblyNotAfter(O, l.from_id, lt1, s.id, e.when)
              /\ PossiblyNotBefore(O, l.to_id, lt2, s.id, e.when)
              /\ (l.condition.neg \/ ~(l.from_id = s.id /\ lt1 = e.when))
              /\ Len(Affects(B, e.literal, s.id, l.condition, l.to_id)) > 0)
       ELSE <<>>

\* link_threats: the unsafes chain with the threats to the link prepended.
link_threats(cx, unsafes, l, steps, O, B) ==
    LET found == SeqConcatAll([i \in 1..Len(steps) |->
                    LET es == ThreateningEffects(cx, l, steps[i], O, B)
                    IN [j \in 1..Len(es) |-> Unsafe(l, steps[i].id, es[j])]])
    IN Reverse(found) \o unsafes

\* step_threats that records the threats under the id after that of the
\* step.
step_threats_next_id(cx, unsafes, step, links, O, B) ==
    LET found == SeqConcatAll([i \in 1..Len(links) |->
                    LET es == ThreateningEffects(cx, links[i], step, O, B)
                    IN [j \in 1..Len(es) |->
                          Unsafe(links[i], step.id + 1, es[j])]])
    IN Reverse(found) \o unsafes

\* step_threats: the unsafes chain with the links the step threatens
\* prepended.
step_threats(cx, unsafes, step, links, O, B) ==
    LET found == SeqConcatAll([i \in 1..Len(links) |->
                    LET es == ThreateningEffects(cx, links[i], step, O, B)
                    IN [j \in 1..Len(es) |-> Unsafe(links[i], step.id, es[j])]])
    IN Reverse(found) \o unsafes

MutexThreat(id1, e1, id2, e2) ==
    [step_id1 |-> id1, effect1 |-> e1, step_id2 |-> id2, effect2 |-> e2]

\* MutexThreat(): the place holder, whose first step id is 0
MutexPlaceHolder == MutexThreat(0, Effect(FTrue), 0, Effect(FTrue))

\* mutex_threats: the chain with the mutex threats of the step prepended.
\* Binary orderings report all of ss, se, es, ee for concurrent steps.
mutex_threats(cx, chain, step, steps, O, B) ==
    LET effects == ActionOf(cx, step.action).effects
        found == SeqConcatAll([i \in 1..Len(steps) |->
           IF PossiblyConcurrent(O, step.id, steps[i].id)
           THEN LET effects2 == ActionOf(cx, steps[i].action).effects
                IN SeqConcatAll([j \in 1..Len(effects) |->
                     LET hit == SelectSeq(effects2, LAMBDA e2 :
                            Len(UnifyAtoms(B, effects[j].literal, step.id,
                                           e2.literal, steps[i].id)) > 0)
                     IN [k \in 1..Len(hit) |->
                           MutexThreat(step.id, effects[j],
                                       steps[i].id, hit[k])]])
           ELSE <<>>])
    IN Reverse(found) \o chain

(***************************************************************************)
(* step_instantiation: bindings that bind every parameter of every step to *)
(* an object, or NULL.                                                     *)
(***************************************************************************)
\* step_instantiation that returns the bindings it is given.
step_instantiation_skipped(cx, steps, n, B) == <<B>>

RECURSIVE step_instantiation(_, _, _, _)
RECURSIVE TryObjects(_, _, _, _, _)
\* step_instantiation that returns as soon as it has bound one parameter.
step_instantiation_of_one_parameter(cx, steps, n, B) ==
    IF Len(steps) = 0 THEN <<B>>
    ELSE LET step == Head(steps)
             ps == ActionOf(cx, step.action).parameters
         IN IF step.action \in {"<init>", ""} \/ Len(ps) <= n
            THEN step_instantiation(cx, Tail(steps), 0, B)
            ELSE IF ps[n + 1] # BindingOf(B, ps[n + 1], step.id)
            THEN step_instantiation(cx, steps, n + 1, B)
            ELSE LET fits == SeqConcatAll([i \in 1..Len(ObjectList(cx)) |->
                                 BindingsAdd(B, << Binding(ps[n + 1], step.id,
                                     ObjectList(cx)[i], 0, TRUE) >>)])
                 IN IF Len(fits) = 0 THEN <<>> ELSE << fits[1] >>

step_instantiation(cx, steps, n, B) ==
    IF Len(steps) = 0 THEN <<B>>
    ELSE LET step == Head(steps)
             ps == ActionOf(cx, step.action).parameters
         IN IF step.action \in {"<init>", ""} \/ Len(ps) <= n
            THEN step_instantiation(cx, Tail(steps), 0, B)
            ELSE LET v == ps[n + 1]
                 IN IF v # BindingOf(B, v, step.id)
                    THEN step_instantiation(cx, steps, n + 1, B)
                    ELSE TryObjects(cx, steps, n, B, ObjectList(cx))

\* The loop over the objects compatible with parameter n of the first step.
TryObjects(cx, steps, n, B, objects) ==
    IF Len(objects) = 0 THEN <<>>
    ELSE LET step == Head(steps)
             v == ActionOf(cx, step.action).parameters[n + 1]
             nb == BindingsAdd(B, << Binding(v, step.id, Head(objects), 0,
                                             TRUE) >>)
             result == IF Len(nb) = 0 THEN <<>>
                       ELSE step_instantiation(cx, steps, n + 1, nb[1])
         IN IF Len(result) > 0 THEN result
            ELSE TryObjects(cx, steps, n, B, Tail(objects))

(***************************************************************************)
(* Plans.                                                                  *)
(***************************************************************************)
Plan(steps, num_steps, links, num_links, orderings, bindings, decomposition_frames, num_decomposition_frames, decomposition_links, num_decomposition_links, unsafes, num_unsafes, open_conds, num_open_conds, unexpanded_steps, num_unexpanded_steps, mutex_threats_) ==
    [steps |-> steps, num_steps |-> num_steps,
     links |-> links, num_links |-> num_links,
     orderings |-> orderings, bindings |-> bindings,
     decomposition_frames |-> decomposition_frames,
     num_decomposition_frames |-> num_decomposition_frames,
     decomposition_links |-> decomposition_links,
     num_decomposition_links |-> num_decomposition_links,
     unsafes |-> unsafes, num_unsafes |-> num_unsafes,
     open_conds |-> open_conds, num_open_conds |-> num_open_conds,
     unexpanded_steps |-> unexpanded_steps,
     num_unexpanded_steps |-> num_unexpanded_steps,
     mutex_threats |-> mutex_threats_,
     id |-> 0]

\* A NULL plan pointer.
NullPlan == [null |-> TRUE]
IsNull(p) == "null" \in DOMAIN p

\* Plan::complete without its test of the mutex threats.
complete_without_mutex_threats(p) ==
    /\ Len(p.unsafes) = 0
    /\ Len(p.open_conds) = 0
    /\ Len(p.unexpanded_steps) = 0

\* Plan::complete
complete(p) ==
    /\ Len(p.unsafes) = 0
    /\ Len(p.open_conds) = 0
    /\ Len(p.mutex_threats) = 0
    /\ Len(p.unexpanded_steps) = 0

\* current_plan != NULL && current_plan->complete()
NonNullComplete(p) == IF IsNull(p) THEN FALSE ELSE complete(p)

\* Plan::make_initial_plan that installs no mutex place holder.
make_initial_plan_without_place_holder(cx) ==
    LET g == add_goal(cx, <<>>, 0, <<>>, GoalAction(cx).condition, GOAL_ID,
                      FALSE)
    IN IF ~g.ok THEN NullPlan
       ELSE Plan(<< Step(0, "<init>"), Step(GOAL_ID, "") >>, 0,
                 <<>>, 0, EmptyOrderings, EmptyBindings, <<>>, 0, <<>>, 0,
                 <<>>, 0, g.open_conds, g.num_open_conds, <<>>, 0, <<>>)

\* Plan::make_initial_plan: the goal admitted as open conditions of the
\* goal step, the steps 0 and GOAL_ID, and the mutex place holder; NULL
\* when the goal is inconsistent.  The problems have no timed initial
\* literals and no durative actions.
make_initial_plan(cx) ==
    LET g == add_goal(cx, <<>>, 0, <<>>, GoalAction(cx).condition, GOAL_ID,
                      FALSE)
    IN IF ~g.ok THEN NullPlan
       ELSE Plan(<< Step(0, "<init>"), Step(GOAL_ID, "") >>, 0,
                 <<>>, 0,
                 EmptyOrderings, EmptyBindings,
                 <<>>, 0,
                 <<>>, 0,
                 <<>>, 0,
                 g.open_conds, g.num_open_conds,
                 <<>>, 0,
                 << MutexPlaceHolder >>)

(***************************************************************************)
(* Unsafe flaw handling.                                                   *)
(***************************************************************************)
\* operator! of formulas
RECURSIVE FNot(_)
FNot(f) ==
    CASE f.kind = "true" -> FFalse
      [] f.kind = "false" -> FTrue
      [] f.kind = "lit" -> [f EXCEPT !.neg = ~f.neg]
      [] f.kind = "eq" -> [f EXCEPT !.kind = "neq"]
      [] f.kind = "neq" -> [f EXCEPT !.kind = "eq"]
      [] f.kind = "and" -> [kind |-> "or",
                            fs |-> [i \in 1..Len(f.fs) |-> FNot(f.fs[i])]]
      [] f.kind = "or" -> [kind |-> "and",
                           fs |-> [i \in 1..Len(f.fs) |-> FNot(f.fs[i])]]
      [] f.kind = "timed" -> [f EXCEPT !.literal = FNot(f.literal)]
      [] f.kind = "exists" -> Forall(f.var, FNot(f.body))
      [] f.kind = "forall" -> Exists(f.var, FNot(f.body))

\* Bindings::consistent_with(inequality, 0)
ConsistentWith(B, neq) ==
    ConsistentBindings(B \cup {Binding(neq.var, neq.var_id, neq.term,
                                       neq.term_id, FALSE)})

\* The disjunction of the inequalities that undo a unifier, as the loops at
\* the head of the two separate functions build it.
RECURSIVE SeparationGoal(_, _, _)
SeparationGoal(B, unifier, goal) ==
    IF Len(unifier) = 0 THEN goal
    ELSE LET subst == Head(unifier)
             g == Inequality(subst.var, subst.var_id, subst.term,
                             subst.term_id)
         IN SeparationGoal(B, Tail(unifier),
                           IF ConsistentWith(B, g) THEN FOr(goal, g)
                           ELSE goal)

\* Plan::separate(plans, unsafe, unifier, test_only)
separate(cx, p, unsafe, unifier, test_only) ==
    LET goal0 == SeparationGoal(p.bindings, unifier, FFalse)
        effect_cond == unsafe.effect.condition
        goal == IF ~Tautology(effect_cond) THEN FOr(goal0, FNot(effect_cond))
                ELSE goal0
        g == add_goal(cx, IF test_only THEN <<>> ELSE p.open_conds,
                      IF test_only THEN 0 ELSE p.num_open_conds,
                      <<>>, goal, unsafe.step_id, test_only)
        bindings == IF g.ok THEN BindingsAdd(p.bindings, g.new_bindings)
                    ELSE <<>>
    IN IF g.ok /\ Len(bindings) > 0
       THEN [count |-> 1,
             plans |-> IF test_only THEN <<>>
                       ELSE << Plan(p.steps, p.num_steps,
                                    p.links, p.num_links,
                                    p.orderings, bindings[1],
                                    p.decomposition_frames,
                                    p.num_decomposition_frames,
                                    p.decomposition_links,
                                    p.num_decomposition_links,
                                    ChainRemove(p.unsafes, unsafe),
                                    p.num_unsafes - 1,
                                    g.open_conds, g.num_open_conds,
                                    p.unexpanded_steps,
                                    p.num_unexpanded_steps,
                                    p.mutex_threats) >>]
       ELSE [count |-> 0, plans |-> <<>>]

\* Plan::new_ordering(plans, before_id, t1, after_id, t2, unsafe)
new_ordering(p, before_id, t1, after_id, t2, unsafe) ==
    LET new_orderings == Refine(p.orderings,
                                Ordering(before_id, t1, after_id, t2))
    IN IF Len(new_orderings) > 0
       THEN << Plan(p.steps, p.num_steps, p.links, p.num_links,
                    new_orderings[1], p.bindings,
                    p.decomposition_frames, p.num_decomposition_frames,
                    p.decomposition_links, p.num_decomposition_links,
                    ChainRemove(p.unsafes, unsafe), p.num_unsafes - 1,
                    p.open_conds, p.num_open_conds,
                    p.unexpanded_steps, p.num_unexpanded_steps,
                    p.mutex_threats) >>
       ELSE <<>>

\* Plan::demote(plans, unsafe)
demote(p, unsafe) ==
    IF PossiblyBefore(p.orderings, unsafe.step_id, unsafe.effect.when,
                      unsafe.link.from_id, unsafe.link.effect_time)
    THEN new_ordering(p, unsafe.step_id, unsafe.effect.when,
                      unsafe.link.from_id, unsafe.link.effect_time, unsafe)
    ELSE <<>>

\* Plan::promote(plans, unsafe)
promote(p, unsafe) ==
    IF PossiblyBefore(p.orderings, unsafe.link.to_id,
                      unsafe.link.condition_time,
                      unsafe.step_id, unsafe.effect.when)
    THEN new_ordering(p, unsafe.link.to_id, unsafe.link.condition_time,
                      unsafe.step_id, unsafe.effect.when, unsafe)
    ELSE <<>>

\* The test at the head of handle_unsafe: the unifier of a threat that is
\* still real, or NULL for a bogus flaw.
ThreatUnifier(p, unsafe) ==
    LET l == unsafe.link
    IN IF /\ PossiblyNotAfter(p.orderings, l.from_id, l.effect_time,
                              unsafe.step_id, unsafe.effect.when)
          /\ PossiblyNotBefore(p.orderings, l.to_id, l.condition_time,
                               unsafe.step_id, unsafe.effect.when)
       THEN Affects(p.bindings, unsafe.effect.literal, unsafe.step_id,
                    l.condition, l.to_id)
       ELSE <<>>

\* handle_unsafe that gives no successor for a bogus flaw.
handle_unsafe_dropping_bogus_flaw(cx, p, unsafe) ==
    LET unifier == ThreatUnifier(p, unsafe)
    IN IF Len(unifier) > 0
       THEN separate(cx, p, unsafe, unifier[1], FALSE).plans
            \o promote(p, unsafe) \o demote(p, unsafe)
       ELSE <<>>

\* handle_unsafe that does not try demotion.
handle_unsafe_without_demotion(cx, p, unsafe) ==
    LET unifier == ThreatUnifier(p, unsafe)
    IN IF Len(unifier) > 0
       THEN separate(cx, p, unsafe, unifier[1], FALSE).plans
            \o promote(p, unsafe)
       ELSE << Plan(p.steps, p.num_steps, p.links, p.num_links,
                    p.orderings, p.bindings,
                    p.decomposition_frames, p.num_decomposition_frames,
                    p.decomposition_links, p.num_decomposition_links,
                    ChainRemove(p.unsafes, unsafe), p.num_unsafes - 1,
                    p.open_conds, p.num_open_conds,
                    p.unexpanded_steps, p.num_unexpanded_steps,
                    p.mutex_threats) >>

\* Plan::handle_unsafe
handle_unsafe(cx, p, unsafe) ==
    LET unifier == ThreatUnifier(p, unsafe)
    IN IF Len(unifier) > 0
       THEN separate(cx, p, unsafe, unifier[1], FALSE).plans
            \o promote(p, unsafe) \o demote(p, unsafe)
       ELSE << Plan(p.steps, p.num_steps, p.links, p.num_links,
                    p.orderings, p.bindings,
                    p.decomposition_frames, p.num_decomposition_frames,
                    p.decomposition_links, p.num_decomposition_links,
                    ChainRemove(p.unsafes, unsafe), p.num_unsafes - 1,
                    p.open_conds, p.num_open_conds,
                    p.unexpanded_steps, p.num_unexpanded_steps,
                    p.mutex_threats) >>

(***************************************************************************)
(* Mutex threat handling.                                                  *)
(***************************************************************************)
\* A plan that differs from p in its bindings, orderings, open conditions
\* and mutex threats, as every successor of a mutex threat does.
MutexSuccessor(p, orderings, bindings, open_conds, num_open_conds, mts) ==
    Plan(p.steps, p.num_steps, p.links, p.num_links,
         orderings, bindings,
         p.decomposition_frames, p.num_decomposition_frames,
         p.decomposition_links, p.num_decomposition_links,
         p.unsafes, p.num_unsafes,
         open_conds, num_open_conds,
         p.unexpanded_steps, p.num_unexpanded_steps,
         mts)

\* The successor of Plan::separate(plans, mutex_threat, unifier) for one
\* goal admitted at one step.
SeparateMutexGoal(cx, p, mutex_threat, goal, step_id) ==
    LET g == add_goal(cx, p.open_conds, p.num_open_conds, <<>>, goal,
                      step_id, FALSE)
        bindings == IF g.ok THEN BindingsAdd(p.bindings, g.new_bindings)
                    ELSE <<>>
    IN IF g.ok /\ Len(bindings) > 0
       THEN << MutexSuccessor(p, p.orderings, bindings[1], g.open_conds,
                              g.num_open_conds,
                              ChainRemove(p.mutex_threats, mutex_threat)) >>
       ELSE <<>>

\* Plan::separate(plans, mutex_threat, unifier)
separate_mutex(cx, p, mutex_threat, unifier) ==
    LET first == IF Len(unifier) > 0
                 THEN SeparateMutexGoal(cx, p, mutex_threat,
                          SeparationGoal(p.bindings, unifier, FFalse), 0)
                 ELSE <<>>
        cond1 == mutex_threat.effect1.condition
        cond2 == mutex_threat.effect2.condition
    IN first
       \o (IF ~Tautology(cond1)
           THEN SeparateMutexGoal(cx, p, mutex_threat, FNot(cond1),
                                  mutex_threat.step_id1)
           ELSE <<>>)
       \o (IF ~Tautology(cond2)
           THEN SeparateMutexGoal(cx, p, mutex_threat, FNot(cond2),
                                  mutex_threat.step_id2)
           ELSE <<>>)

\* Plan::new_ordering(plans, before_id, t1, after_id, t2, mutex_threat)
new_ordering_mutex(p, before_id, t1, after_id, t2, mutex_threat) ==
    LET new_orderings == Refine(p.orderings,
                                Ordering(before_id, t1, after_id, t2))
    IN IF Len(new_orderings) > 0
       THEN << MutexSuccessor(p, new_orderings[1], p.bindings,
                              p.open_conds, p.num_open_conds,
                              ChainRemove(p.mutex_threats, mutex_threat)) >>
       ELSE <<>>

\* Plan::demote(plans, mutex_threat)
demote_mutex(p, mt) ==
    IF PossiblyBefore(p.orderings, mt.step_id1, mt.effect1.when,
                      mt.step_id2, mt.effect2.when)
    THEN new_ordering_mutex(p, mt.step_id1, mt.effect1.when,
                            mt.step_id2, mt.effect2.when, mt)
    ELSE <<>>

\* Plan::promote(plans, mutex_threat)
promote_mutex(p, mt) ==
    IF PossiblyBefore(p.orderings, mt.step_id2, mt.effect2.when,
                      mt.step_id1, mt.effect1.when)
    THEN new_ordering_mutex(p, mt.step_id2, mt.effect2.when,
                            mt.step_id1, mt.effect1.when, mt)
    ELSE <<>>

\* The sweep of handle_mutex_threat for the place holder: the mutex threats
\* of every step of the plan, on an empty chain.
RECURSIVE MutexSweep(_, _, _, _)
MutexSweep(cx, p, steps, chain) ==
    IF Len(steps) = 0 THEN chain
    ELSE MutexSweep(cx, p, Tail(steps),
                    mutex_threats(cx, chain, Head(steps), p.steps,
                                  p.orderings, p.bindings))

\* handle_mutex_threat that, for the place holder, adds the threats it
\* finds to the chain of the plan.
handle_mutex_threat_keeping_place_holder(cx, p, mt) ==
    IF mt.step_id1 = 0
    THEN << MutexSuccessor(p, p.orderings, p.bindings, p.open_conds,
                           p.num_open_conds,
                           MutexSweep(cx, p, p.steps, p.mutex_threats)) >>
    ELSE LET unifier ==
               IF /\ PossiblyNotBefore(p.orderings, mt.step_id1,
                                       mt.effect1.when, mt.step_id2,
                                       mt.effect2.when)
                  /\ PossiblyNotAfter(p.orderings, mt.step_id1,
                                      mt.effect1.when, mt.step_id2,
                                      mt.effect2.when)
               THEN UnifyAtoms(p.bindings, mt.effect1.literal, mt.step_id1,
                               mt.effect2.literal, mt.step_id2)
               ELSE <<>>
         IN IF Len(unifier) > 0
            THEN separate_mutex(cx, p, mt, unifier[1])
                 \o promote_mutex(p, mt) \o demote_mutex(p, mt)
            ELSE << MutexSuccessor(p, p.orderings, p.bindings, p.open_conds,
                                   p.num_open_conds,
                                   ChainRemove(p.mutex_threats, mt)) >>

\* Plan::handle_mutex_threat
handle_mutex_threat(cx, p, mt) ==
    IF mt.step_id1 = 0
    THEN << MutexSuccessor(p, p.orderings, p.bindings, p.open_conds,
                           p.num_open_conds,
                           MutexSweep(cx, p, p.steps, <<>>)) >>
    ELSE LET unifier ==
               IF /\ PossiblyNotBefore(p.orderings, mt.step_id1,
                                       mt.effect1.when, mt.step_id2,
                                       mt.effect2.when)
                  /\ PossiblyNotAfter(p.orderings, mt.step_id1,
                                      mt.effect1.when, mt.step_id2,
                                      mt.effect2.when)
               THEN UnifyAtoms(p.bindings, mt.effect1.literal, mt.step_id1,
                               mt.effect2.literal, mt.step_id2)
               ELSE <<>>
         IN IF Len(unifier) > 0
            THEN separate_mutex(cx, p, mt, unifier[1])
                 \o promote_mutex(p, mt) \o demote_mutex(p, mt)
            ELSE << MutexSuccessor(p, p.orderings, p.bindings, p.open_conds,
                                   p.num_open_conds,
                                   ChainRemove(p.mutex_threats, mt)) >>

(***************************************************************************)
(* Open condition handling.                                                *)
(***************************************************************************)
Achiever(a, e) == [action |-> a, effect |-> e]

\* The <predicate, action> maps achieves_pred and achieves_neg_pred that
\* Plan::plan builds: the effects of the action schemas of the domain and,
\* for atoms, of the initial action.
AchieversOfActions(actions, neg, pred) ==
    SeqConcatAll([i \in 1..Len(actions) |->
        LET es == SelectSeq(actions[i].effects, LAMBDA e :
                      e.literal.neg = neg /\ e.literal.pred = pred)
        IN [j \in 1..Len(es) |-> Achiever(actions[i].name, es[j])]])

achieves_pred(cx, pred) ==
    AchieversOfActions(cx.problem.actions \o <<InitAction(cx)>>, FALSE, pred)

achieves_neg_pred(cx, pred) ==
    AchieversOfActions(cx.problem.actions, TRUE, pred)

\* literal_achievers: NULL and the empty map are both the empty sequence.
\* With ground actions the achievers come from the planning graph: the
\* effects that are the literal itself.
literal_achievers(cx, literal) ==
    LET byPred == IF literal.neg THEN achieves_neg_pred(cx, literal.pred)
                  ELSE achieves_pred(cx, literal.pred)
    IN IF cx.ground_actions
       THEN SelectSeq(byPred, LAMBDA a : a.effect.literal = literal)
       ELSE byPred

UnexpandedCompositeStep(step) == [step_id |-> step.id, action |-> step.action]

\* Plan::make_link: the number of refinements (0 or 1) and, unless
\* test_only, the successor.
make_link(cx, p, step, effect, literal, open_cond, unifier, test_only) ==
    LET none == [count |-> 0, plans |-> <<>>]
        new_step == step.id > p.num_steps
        cond_goal == FAnd(effect.condition, effect.link_condition)
        g0 == [ok |-> TRUE, thrown |-> FALSE,
               open_conds |-> IF test_only THEN <<>>
                              ELSE ChainRemove(p.open_conds, open_cond),
               num_open_conds |-> IF test_only THEN 0
                                  ELSE p.num_open_conds - 1,
               new_bindings |-> unifier]
        g1 == IF ~Tautology(cond_goal)
              THEN add_goal(cx, g0.open_conds, g0.num_open_conds,
                            g0.new_bindings, cond_goal, step.id, test_only)
              ELSE g0
        g2 == IF g1.ok /\ new_step
              THEN add_goal(cx, g1.open_conds, g1.num_open_conds,
                            g1.new_bindings,
                            ActionOf(cx, step.action).condition, step.id,
                            test_only)
              ELSE g1
        new_steps == IF test_only THEN <<>>
                     ELSE IF new_step THEN <<step>> \o p.steps
                     ELSE p.steps
        new_num_steps == IF test_only THEN 0
                         ELSE IF new_step THEN p.num_steps + 1
                         ELSE p.num_steps
        tmp_bindings == BindingsAdd(p.bindings, g2.new_bindings)
    IN IF ~g1.ok \/ ~g2.ok THEN none
       ELSE IF test_only THEN [count |-> 1, plans |-> <<>>]
       ELSE IF Len(tmp_bindings) = 0 THEN none
       ELSE
       LET bindings == tmp_bindings[1]
           new_orderings == Refine(p.orderings,
                                   Ordering(step.id, effect.when,
                                            open_cond.step_id,
                                            open_cond.when))
       IN IF Len(new_orderings) = 0 THEN none
          ELSE
          LET new_links == << Link(step.id, effect.when, open_cond) >>
                           \o p.links
              unsafes1 == link_threats(cx, p.unsafes, new_links[1],
                                       new_steps, new_orderings[1], bindings)
              new_unsafes == IF new_step
                             THEN step_threats(cx, unsafes1, step, p.links,
                                               new_orderings[1], bindings)
                             ELSE unsafes1
              new_num_unsafes == p.num_unsafes
                                 + (Len(new_unsafes) - Len(p.unsafes))
              \* new_unexpanded_steps starts as nullptr and is given a value
              \* only for a new step
              new_unexpanded_steps ==
                  IF new_step
                  THEN IF ActionOf(cx, step.action).composite
                       THEN << UnexpandedCompositeStep(step) >>
                            \o p.unexpanded_steps
                       ELSE p.unexpanded_steps
                  ELSE <<>>
              new_num_unexpanded_steps ==
                  IF new_step /\ ActionOf(cx, step.action).composite
                  THEN p.num_unexpanded_steps + 1
                  ELSE p.num_unexpanded_steps
          IN [count |-> 1,
              plans |-> << Plan(new_steps, new_num_steps,
                                new_links, p.num_links + 1,
                                new_orderings[1], bindings,
                                p.decomposition_frames,
                                p.num_decomposition_frames,
                                p.decomposition_links,
                                p.num_decomposition_links,
                                new_unsafes, new_num_unsafes,
                                g2.open_conds, g2.num_open_conds,
                                new_unexpanded_steps,
                                new_num_unexpanded_steps,
                                p.mutex_threats) >>]

\* Plan::new_link
new_link(cx, p, step, effect, literal, open_cond, test_only) ==
    LET mgu == Unify(p.bindings, effect.literal, step.id, literal,
                     open_cond.step_id)
    IN IF Len(mgu) > 0
       THEN make_link(cx, p, step, effect, literal, open_cond, mgu[1],
                      test_only)
       ELSE [count |-> 0, plans |-> <<>>]

\* Plan::add_step without the test for dummy actions.
add_step_of_any_action(cx, p, literal, open_cond, achievers) ==
    SeqConcatAll([i \in 1..Len(achievers) |->
        new_link(cx, p, Step(p.num_steps + 1, achievers[i].action),
                 achievers[i].effect, literal, open_cond, FALSE).plans])

\* Plan::add_step that passes over an id.
add_step_skipping_id(cx, p, literal, open_cond, achievers) ==
    SeqConcatAll([i \in 1..Len(achievers) |->
        IF ~IsDummyName(achievers[i].action)
        THEN new_link(cx, p, Step(p.num_steps + 2, achievers[i].action),
                      achievers[i].effect, literal, open_cond, FALSE).plans
        ELSE <<>>])

\* Plan::add_step
add_step(cx, p, literal, open_cond, achievers) ==
    SeqConcatAll([i \in 1..Len(achievers) |->
        IF ~IsDummyName(achievers[i].action)
        THEN new_link(cx, p, Step(p.num_steps + 1, achievers[i].action),
                      achievers[i].effect, literal, open_cond, FALSE).plans
        ELSE <<>>])

\* Plan::reuse_step
reuse_step(cx, p, literal, open_cond, achievers) ==
    SeqConcatAll([i \in 1..Len(p.steps) |->
        LET step == p.steps[i]
            b == SelectSeq(achievers, LAMBDA a : a.action = step.action)
        IN IF PossiblyBefore(p.orderings, step.id, "AT_START",
                             open_cond.step_id, open_cond.when)
           THEN SeqConcatAll([j \in 1..Len(b) |->
                    IF PossiblyBefore(p.orderings, step.id, b[j].effect.when,
                                      open_cond.step_id, open_cond.when)
                    THEN new_link(cx, p, step, b[j].effect, literal,
                                  open_cond, FALSE).plans
                    ELSE <<>>])
           ELSE <<>>])

\* The first loop of new_cw_link: the conjunction of the inequalities that
\* keep the goal atom apart from every initial atom, or NULL when an initial
\* atom is the goal atom.
RECURSIVE CwGoals(_, _, _, _, _)
CwGoals(B, effects, goal, step_id, goals) ==
    IF Len(effects) = 0 THEN <<goals>>
    ELSE LET mgu == UnifyAtoms(B, Head(effects).literal, 0, goal, step_id)
         IN IF Len(mgu) = 0
            THEN CwGoals(B, Tail(effects), goal, step_id, goals)
            ELSE IF Len(mgu[1]) = 0 THEN <<>>
            ELSE LET subst == mgu[1][1]
                     binds == Inequality(subst.var, subst.var_id,
                                         subst.term, subst.term_id)
                 IN CwGoals(B, Tail(effects), goal, step_id,
                            FAnd(goals, binds))

\* new_cw_link that leaves the unsafes of the plan as they are.
new_cw_link_without_threats(cx, p, effects, negation, open_cond, test_only) ==
    LET goals == CwGoals(p.bindings, effects, negation, open_cond.step_id,
                         FTrue)
    IN IF Len(goals) = 0 THEN [count |-> 0, plans |-> <<>>]
       ELSE
       LET g == add_goal(cx,
                         IF test_only THEN <<>>
                         ELSE ChainRemove(p.open_conds, open_cond),
                         IF test_only THEN 0 ELSE p.num_open_conds - 1,
                         <<>>, goals[1], 0, test_only)
           bindings == IF g.ok THEN BindingsAdd(p.bindings, g.new_bindings)
                       ELSE <<>>
       IN IF ~g.ok \/ Len(bindings) = 0 THEN [count |-> 0, plans |-> <<>>]
          ELSE IF test_only THEN [count |-> 1, plans |-> <<>>]
          ELSE
          LET new_links == << Link(0, "AT_END", open_cond) >> \o p.links
              new_unsafes == p.unsafes
          IN [count |-> 1,
              plans |-> << Plan(p.steps, p.num_steps,
                                new_links, p.num_links + 1,
                                p.orderings, bindings[1],
                                p.decomposition_frames,
                                p.num_decomposition_frames,
                                p.decomposition_links,
                                p.num_decomposition_links,
                                new_unsafes,
                                p.num_unsafes
                                + (Len(new_unsafes) - Len(p.unsafes)),
                                g.open_conds, g.num_open_conds,
                                p.unexpanded_steps, p.num_unexpanded_steps,
                                p.mutex_threats) >>]

\* Plan::new_cw_link
new_cw_link(cx, p, effects, negation, open_cond, test_only) ==
    LET goals == CwGoals(p.bindings, effects, negation, open_cond.step_id,
                         FTrue)
    IN IF Len(goals) = 0 THEN [count |-> 0, plans |-> <<>>]
       ELSE
       LET g == add_goal(cx,
                         IF test_only THEN <<>>
                         ELSE ChainRemove(p.open_conds, open_cond),
                         IF test_only THEN 0 ELSE p.num_open_conds - 1,
                         <<>>, goals[1], 0, test_only)
           bindings == IF g.ok THEN BindingsAdd(p.bindings, g.new_bindings)
                       ELSE <<>>
       IN IF ~g.ok \/ Len(bindings) = 0 THEN [count |-> 0, plans |-> <<>>]
          ELSE IF test_only THEN [count |-> 1, plans |-> <<>>]
          ELSE
          LET new_links == << Link(0, "AT_END", open_cond) >> \o p.links
              new_unsafes == link_threats(cx, p.unsafes, new_links[1],
                                          p.steps, p.orderings, bindings[1])
          IN [count |-> 1,
              plans |-> << Plan(p.steps, p.num_steps,
                                new_links, p.num_links + 1,
                                p.orderings, bindings[1],
                                p.decomposition_frames,
                                p.num_decomposition_frames,
                                p.decomposition_links,
                                p.num_decomposition_links,
                                new_unsafes,
                                p.num_unsafes
                                + (Len(new_unsafes) - Len(p.unsafes)),
                                g.open_conds, g.num_open_conds,
                                p.unexpanded_steps, p.num_unexpanded_steps,
                                p.mutex_threats) >>]

\* handle_disjunction for one disjunct, keeping the bindings of the plan
\* when those of the disjunct cannot be added.
DisjunctSuccessorWhateverItsBindings(cx, p, disjunct, open_cond, test_only) ==
    LET g == add_goal(cx,
                      IF test_only THEN <<>>
                      ELSE ChainRemove(p.open_conds, open_cond),
                      IF test_only THEN 0 ELSE p.num_open_conds - 1,
                      <<>>, disjunct, open_cond.step_id, test_only)
        added == IF g.ok THEN BindingsAdd(p.bindings, g.new_bindings)
                 ELSE <<>>
        bindings == IF Len(added) > 0 THEN added ELSE << p.bindings >>
    IN IF g.ok
       THEN [count |-> 1,
             plans |-> IF test_only THEN <<>>
                       ELSE << Plan(p.steps, p.num_steps,
                                    p.links, p.num_links,
                                    p.orderings, bindings[1],
                                    p.decomposition_frames,
                                    p.num_decomposition_frames,
                                    p.decomposition_links,
                                    p.num_decomposition_links,
                                    p.unsafes, p.num_unsafes,
                                    g.open_conds, g.num_open_conds,
                                    p.unexpanded_steps,
                                    p.num_unexpanded_steps,
                                    p.mutex_threats) >>]
       ELSE [count |-> 0, plans |-> <<>>]

\* Plan::handle_disjunction for one disjunct
DisjunctSuccessor(cx, p, disjunct, open_cond, test_only) ==
    LET g == add_goal(cx,
                      IF test_only THEN <<>>
                      ELSE ChainRemove(p.open_conds, open_cond),
                      IF test_only THEN 0 ELSE p.num_open_conds - 1,
                      <<>>, disjunct, open_cond.step_id, test_only)
        bindings == IF g.ok THEN BindingsAdd(p.bindings, g.new_bindings)
                    ELSE <<>>
    IN IF g.ok /\ Len(bindings) > 0
       THEN [count |-> 1,
             plans |-> IF test_only THEN <<>>
                       ELSE << Plan(p.steps, p.num_steps,
                                    p.links, p.num_links,
                                    p.orderings, bindings[1],
                                    p.decomposition_frames,
                                    p.num_decomposition_frames,
                                    p.decomposition_links,
                                    p.num_decomposition_links,
                                    p.unsafes, p.num_unsafes,
                                    g.open_conds, g.num_open_conds,
                                    p.unexpanded_steps,
                                    p.num_unexpanded_steps,
                                    p.mutex_threats) >>]
       ELSE [count |-> 0, plans |-> <<>>]

\* Plan::handle_disjunction
handle_disjunction(cx, p, disj, open_cond) ==
    SeqConcatAll([i \in 1..Len(disj.fs) |->
        DisjunctSuccessor(cx, p, disj.fs[i], open_cond, FALSE).plans])

\* Bindings::domain: the objects the variable of the step may be bound to.
Domain(cx, B, v, sid) ==
    {o \in cx.problem.objects :
        ConsistentBindings(B \cup {Binding(v, sid, o, 0, TRUE)})}

\* handle_inequality branching on the variable with the larger domain.
handle_inequality_on_larger_domain(cx, p, neq, open_cond, test_only) ==
    LET sid1 == IF neq.var_id # 0 THEN neq.var_id ELSE open_cond.step_id
        sid2 == IF neq.term_id # 0 THEN neq.term_id ELSE open_cond.step_id
        d1 == Domain(cx, p.bindings, neq.var, sid1)
        d2 == Domain(cx, p.bindings, neq.term, sid2)
        first == Cardinality(d1) > Cardinality(d2)
        var1 == IF first THEN neq.var ELSE neq.term
        id1 == IF first THEN sid1 ELSE sid2
        var2 == IF first THEN neq.term ELSE neq.var
        id2 == IF first THEN sid2 ELSE sid1
        var_domain == SelectSeq(ObjectList(cx), LAMBDA o :
                          o \in (IF first THEN d1 ELSE d2))
        found == SeqConcatAll([i \in 1..Len(var_domain) |->
                    BindingsAdd(p.bindings,
                        << Binding(var1, id1, var_domain[i], 0, TRUE),
                           Binding(var2, id2, var_domain[i], 0, FALSE) >>)])
    IN [count |-> Len(found),
        plans |-> IF test_only THEN <<>>
                  ELSE [i \in 1..Len(found) |->
                          Plan(p.steps, p.num_steps, p.links, p.num_links,
                               p.orderings, found[i],
                               p.decomposition_frames,
                               p.num_decomposition_frames,
                               p.decomposition_links,
                               p.num_decomposition_links,
                               p.unsafes, p.num_unsafes,
                               ChainRemove(p.open_conds, open_cond),
                               p.num_open_conds - 1,
                               p.unexpanded_steps, p.num_unexpanded_steps,
                               p.mutex_threats)]]

\* Plan::handle_inequality: the number of refinements and, unless
\* test_only, the successors: one for every object of the smaller of the
\* two domains that the first variable can take and the second avoid.
handle_inequality(cx, p, neq, open_cond, test_only) ==
    LET sid1 == IF neq.var_id # 0 THEN neq.var_id ELSE open_cond.step_id
        sid2 == IF neq.term_id # 0 THEN neq.term_id ELSE open_cond.step_id
        d1 == Domain(cx, p.bindings, neq.var, sid1)
        d2 == Domain(cx, p.bindings, neq.term, sid2)
        first == Cardinality(d1) < Cardinality(d2)
        var1 == IF first THEN neq.var ELSE neq.term
        id1 == IF first THEN sid1 ELSE sid2
        var2 == IF first THEN neq.term ELSE neq.var
        id2 == IF first THEN sid2 ELSE sid1
        var_domain == SelectSeq(ObjectList(cx), LAMBDA o :
                          o \in (IF first THEN d1 ELSE d2))
        found == SeqConcatAll([i \in 1..Len(var_domain) |->
                    BindingsAdd(p.bindings,
                        << Binding(var1, id1, var_domain[i], 0, TRUE),
                           Binding(var2, id2, var_domain[i], 0, FALSE) >>)])
    IN [count |-> Len(found),
        plans |-> IF test_only THEN <<>>
                  ELSE [i \in 1..Len(found) |->
                          Plan(p.steps, p.num_steps, p.links, p.num_links,
                               p.orderings, found[i],
                               p.decomposition_frames,
                               p.num_decomposition_frames,
                               p.decomposition_links,
                               p.num_decomposition_links,
                               p.unsafes, p.num_unsafes,
                               ChainRemove(p.open_conds, open_cond),
                               p.num_open_conds - 1,
                               p.unexpanded_steps, p.num_unexpanded_steps,
                               p.mutex_threats)]]

\* Plan::handle_open_condition.  add_goal turns inequalities into bindings,
\* so that no open condition of a plan the search builds is an inequality.
handle_open_condition(cx, p, open_cond) ==
    IF IsLiteralCond(open_cond)
    THEN LET literal == open_cond.condition
             achievers == literal_achievers(cx, literal)
         IN add_step(cx, p, literal, open_cond, achievers)
            \o reuse_step(cx, p, literal, open_cond, achievers)
            \o (IF literal.neg
                THEN new_cw_link(cx, p, InitAction(cx).effects,
                                 [literal EXCEPT !.neg = FALSE], open_cond,
                                 FALSE).plans
                ELSE <<>>)
    ELSE IF open_cond.condition.kind = "or"
    THEN handle_disjunction(cx, p, open_cond.condition, open_cond)
    ELSE handle_inequality(cx, p, open_cond.condition, open_cond,
                           FALSE).plans

(***************************************************************************)
(* The counts of refinements that flaw selection asks for.  A count that   *)
(* is not known yet is negative.                                           *)
(***************************************************************************)
\* The loop that adds up the counts of test-only refinements and returns
\* false as soon as the sum exceeds the limit: whether it ran to its end,
\* and the sum.
RECURSIVE CountWithinLimit(_, _, _)
CountWithinLimit(counts, count, limit) ==
    IF Len(counts) = 0 THEN [ok |-> TRUE, count |-> count]
    ELSE IF count + Head(counts) > limit
    THEN [ok |-> FALSE, count |-> count + Head(counts)]
    ELSE CountWithinLimit(Tail(counts), count + Head(counts), limit)

\* Plan::addable_steps: the return value and the in/out argument
\* refinements.
addable_steps(cx, p, refinements, literal, open_cond, limit) ==
    CHOOSE returned \in
        {IF ~loop.ok THEN [ok |-> FALSE, refinements |-> refinements]
         ELSE [ok |-> loop.count <= limit, refinements |-> loop.count] :
            loop \in {CountWithinLimit(counts, 0, limit) : counts \in
                {[i \in 1..Len(achievers) |->
                     new_link(cx, p, Step(p.num_steps + 1,
                                          achievers[i].action),
                              achievers[i].effect, literal, open_cond,
                              TRUE).count] :
                 achievers \in
                    {SelectSeq(literal_achievers(cx, literal), LAMBDA a :
                         ~IsDummyName(a.action))}}}} : TRUE

\* Plan::reusable_steps: the return value and the in/out argument
\* refinements.
reusable_steps(cx, p, refinements, literal, open_cond, limit) ==
    CHOOSE returned \in
        {IF ~loop.ok THEN [ok |-> FALSE, refinements |-> refinements]
         ELSE [ok |-> loop.count + cw <= limit,
               refinements |-> loop.count + cw] :
            loop \in {CountWithinLimit(counts, 0, limit) : counts \in
                {SeqConcatAll([i \in 1..Len(p.steps) |->
                    IF PossiblyBefore(p.orderings, p.steps[i].id,
                                      "AT_START", open_cond.step_id,
                                      open_cond.when)
                    THEN [j \in 1..Len(reach[i]) |->
                            new_link(cx, p, p.steps[i], reach[i][j].effect,
                                     literal, open_cond, TRUE).count]
                    ELSE <<>>]) :
                 reach \in
                    {[i \in 1..Len(p.steps) |->
                        SelectSeq(literal_achievers(cx, literal),
                            LAMBDA a :
                              /\ a.action = p.steps[i].action
                              /\ PossiblyBefore(p.orderings, p.steps[i].id,
                                                a.effect.when,
                                                open_cond.step_id,
                                                open_cond.when))]}}},
            cw \in {IF literal.neg
                    THEN new_cw_link(cx, p, InitAction(cx).effects,
                                     [literal EXCEPT !.neg = FALSE],
                                     open_cond, TRUE).count
                    ELSE 0}} : TRUE

\* Plan::open_cond_refinements: the return value, whether "unknown kind of
\* open condition" was thrown, and the three in/out arguments.
open_cond_refinements(cx, p, refinements, addable, reusable, open_cond, limit) ==
    LET out(ok, ref, add, reu) ==
            [ok |-> ok, thrown |-> FALSE, refinements |-> ref,
             addable |-> add, reusable |-> reu]
    IN IF refinements >= 0
       THEN out(refinements <= limit, refinements, addable, reusable)
       ELSE IF IsLiteralCond(open_cond)
       THEN CHOOSE returned \in
              {IF ~a.ok
               THEN out(FALSE, refinements, a.refinements, reusable)
               ELSE IF a.refinements > limit
               THEN out(FALSE, refinements, a.refinements, reusable)
               ELSE IF ~r.ok
               THEN out(FALSE, refinements, a.refinements, r.refinements)
               ELSE out(a.refinements + r.refinements <= limit,
                        a.refinements + r.refinements,
                        a.refinements, r.refinements) :
                  a \in {IF addable < 0
                         THEN addable_steps(cx, p, addable,
                                  open_cond.condition, open_cond, limit)
                         ELSE [ok |-> TRUE, refinements |-> addable]},
                  r \in {IF reusable < 0
                         THEN reusable_steps(cx, p, reusable,
                                  open_cond.condition, open_cond, limit)
                         ELSE [ok |-> TRUE, refinements |-> reusable]}} : TRUE
       ELSE IF open_cond.condition.kind = "or"
       THEN LET disj == open_cond.condition
                count == Len(SelectSeq([i \in 1..Len(disj.fs) |->
                                 DisjunctSuccessor(cx, p, disj.fs[i],
                                                   open_cond, TRUE).count],
                             LAMBDA c : c = 1))
            IN out(count <= limit, count, addable, reusable)
       ELSE IF open_cond.condition.kind = "neq"
       THEN out(FALSE,
                handle_inequality(cx, p, open_cond.condition, open_cond,
                                  TRUE).count,
                addable, reusable)
       ELSE [out(FALSE, refinements, addable, reusable)
                EXCEPT !.thrown = TRUE]

\* Plan::unexpanded_step_refinements: the return value and the two in/out
\* arguments.  The function does nothing but return false.
unexpanded_step_refinements(cx, p, refinements, expandable, unexpanded_step, limit) ==
    [ok |-> FALSE, refinements |-> refinements, expandable |-> expandable]

(***************************************************************************)
(* Unexpanded composite step handling.                                     *)
(***************************************************************************)
\* DecompositionFrame(decomposition): the instance of a decomposition
DecompositionFrame(d) ==
    [decomposition |-> d.name, steps |-> d.pseudo_steps,
     binding_list |-> d.binding_list, ordering_list |-> d.ordering_list,
     link_list |-> d.link_list,
     dummy_initial_step_id |-> d.dummy_initial_step_id,
     dummy_final_step_id |-> d.dummy_final_step_id]

\* A decomposition link that does not keep the id of the composite step.
DecompositionLinkWithoutId(cid, frame) == [composite_id |-> 0, frame |-> frame]

DecompositionLink(cid, frame) == [composite_id |-> cid, frame |-> frame]

\* DecompositionFrame::swap_steps(old_step, new_step): the step replaced and
\* every reference to its id updated.
swap_steps(frame, old, new) ==
    LET ren(i) == IF i = old.id THEN new.id ELSE i
    IN [frame EXCEPT
          !.steps = [i \in 1..Len(frame.steps) |->
                       IF frame.steps[i] = old THEN new ELSE frame.steps[i]],
          !.binding_list = [i \in 1..Len(frame.binding_list) |->
                       [frame.binding_list[i] EXCEPT
                           !.var_id = ren(@), !.term_id = ren(@)]],
          !.ordering_list = [i \in 1..Len(frame.ordering_list) |->
                       [frame.ordering_list[i] EXCEPT
                           !.before_id = ren(@), !.after_id = ren(@)]],
          !.link_list = [i \in 1..Len(frame.link_list) |->
                       [frame.link_list[i] EXCEPT
                           !.from_id = ren(@), !.to_id = ren(@)]],
          !.dummy_initial_step_id = ren(@),
          !.dummy_final_step_id = ren(@)]

\* The loop of add_decomposition_frame over the pseudo-steps, from the
\* pseudo-step of index si (0-based) on.  st holds the locals of the
\* function; st.ok is false once the function has gone to fail.
RECURSIVE InstantiatePseudoSteps(_, _, _, _)
InstantiatePseudoSteps(cx, p, si, st) ==
    IF ~st.ok \/ si >= Len(st.instance.steps) THEN st
    ELSE
    LET pseudo_step == st.instance.steps[si + 1]
        new_step == Step(p.num_steps + 1 + si, pseudo_step.action)
        composite == ActionOf(cx, new_step.action).composite
        g == add_goal(cx, st.open_conds, st.num_open_conds, <<>>,
                      ActionOf(cx, new_step.action).condition, new_step.id,
                      FALSE)
        nb == IF g.ok THEN BindingsAdd(st.bindings, g.new_bindings) ELSE <<>>
    IN InstantiatePseudoSteps(cx, p, si + 1,
         [st EXCEPT
            !.instance = swap_steps(st.instance, pseudo_step, new_step),
            !.steps = <<new_step>> \o st.steps,
            !.num_steps = st.num_steps + 1,
            !.unexpanded_steps =
                IF composite
                THEN << UnexpandedCompositeStep(new_step) >> \o @
                ELSE @,
            !.num_unexpanded_steps = IF composite THEN @ + 1 ELSE @,
            !.open_conds = g.open_conds,
            !.num_open_conds = g.num_open_conds,
            !.bindings = IF Len(nb) > 0 THEN nb[1] ELSE @,
            !.ok = g.ok /\ Len(nb) > 0])

\* A run of refinements of the orderings, as each of the three ordering
\* loops of add_decomposition_frame makes it; NULL when one of them fails.
RECURSIVE RefineAll(_, _)
RefineAll(O, os) ==
    IF Len(os) = 0 THEN <<O>>
    ELSE LET t == Refine(O, Head(os))
         IN IF Len(t) = 0 THEN <<>> ELSE RefineAll(t[1], Tail(os))

\* The orderings of add_decomposition_frame without those of the links of
\* the frame.
FrameOrderingsWithoutLinks(p, unexpanded, instance) ==
    LET contributes == SelectSeq(p.links, LAMBDA l :
                           l.from_id = unexpanded.step_id)
    IN [i \in 1..Len(contributes) |->
           Ordering(instance.dummy_final_step_id, "AT_END",
                    contributes[i].to_id, "AT_START")]
       \o instance.ordering_list

\* The orderings add_decomposition_frame asks for: the dummy final step
\* before every step the composite step has a link to, the producer of
\* every link of the frame before its consumer, and the orderings the
\* decomposition states.
FrameOrderings(p, unexpanded, instance) ==
    LET contributes == SelectSeq(p.links, LAMBDA l :
                           l.from_id = unexpanded.step_id)
        first == [i \in 1..Len(contributes) |->
                    Ordering(instance.dummy_final_step_id, "AT_END",
                             contributes[i].to_id, "AT_START")]
        second == SeqConcatAll([si \in 1..Len(instance.steps) |->
                    LET incoming == SelectSeq(instance.link_list, LAMBDA l :
                                        l.to_id = instance.steps[si].id)
                    IN [li \in 1..Len(incoming) |->
                          Ordering(incoming[li].from_id, "AT_END",
                                   instance.steps[si].id, "AT_START")]])
    IN first \o second \o instance.ordering_list

\* Plan::add_decomposition_frame.  The result holds the successor (if any)
\* and whether the function deleted the orderings of the plan it refines:
\* it deletes new_orderings, which starts as orderings_, when a refinement
\* returns other orderings and when it goes to fail.
add_decomposition_frame(cx, p, unexpanded, expansion) ==
    LET instance == DecompositionFrame(expansion)
        \* the link and the frame chain copy the instance before its
        \* pseudo-steps are swapped
        new_decomposition_links ==
            << DecompositionLink(unexpanded.step_id, instance) >>
            \o p.decomposition_links
        new_decomposition_frames == <<instance>> \o p.decomposition_frames
        st0 == [ok |-> TRUE, instance |-> instance,
                steps |-> p.steps, num_steps |-> p.num_steps,
                unexpanded_steps |-> p.unexpanded_steps,
                num_unexpanded_steps |-> p.num_unexpanded_steps,
                open_conds |-> p.open_conds,
                num_open_conds |-> p.num_open_conds,
                bindings |-> p.bindings]
        st == InstantiatePseudoSteps(cx, p, 0, st0)
        new_bindings == IF st.ok
                        THEN BindingsAdd(st.bindings,
                                         st.instance.binding_list)
                        ELSE <<>>
        new_orderings == IF Len(new_bindings) > 0
                         THEN RefineAll(p.orderings,
                                  FrameOrderings(p, unexpanded, st.instance))
                         ELSE <<>>
    IN IF Len(new_bindings) = 0
       THEN [plans |-> <<>>, deleted_orderings |-> TRUE]
       ELSE IF Len(new_orderings) = 0
       THEN [plans |-> <<>>, deleted_orderings |-> TRUE]
       ELSE
       [plans |-> << Plan(st.steps, st.num_steps,
                          Reverse(st.instance.link_list) \o p.links,
                          p.num_links + Len(st.instance.link_list),
                          new_orderings[1], new_bindings[1],
                          new_decomposition_frames,
                          p.num_decomposition_frames + 1,
                          new_decomposition_links,
                          p.num_decomposition_links + 1,
                          p.unsafes, p.num_unsafes,
                          st.open_conds, st.num_open_conds,
                          ChainRemove(st.unexpanded_steps, unexpanded),
                          st.num_unexpanded_steps - 1,
                          p.mutex_threats) >>,
        deleted_orderings |-> new_orderings[1] # p.orderings]

\* achieves_composite.equal_range(composite_action)
achieves_composite(cx, action) ==
    SelectSeq(cx.problem.decompositions, LAMBDA d :
        d.action = action /\ ActionOf(cx, action).composite)

\* Plan::handle_unexpanded_composite_step that hands the plan back when no
\* decomposition is registered for the action of the step.
handle_unexpanded_composite_step_keeping_plan(cx, p, unexpanded) ==
    LET ds == achieves_composite(cx, unexpanded.action)
    IN IF Len(ds) = 0 THEN <<p>>
       ELSE SeqConcatAll([i \in 1..Len(ds) |->
                add_decomposition_frame(cx, p, unexpanded, ds[i]).plans])

\* Plan::handle_unexpanded_composite_step
handle_unexpanded_composite_step(cx, p, unexpanded) ==
    LET ds == achieves_composite(cx, unexpanded.action)
    IN SeqConcatAll([i \in 1..Len(ds) |->
           add_decomposition_frame(cx, p, unexpanded, ds[i]).plans])

\* Whether handling the flaw deletes the orderings of the plan.
DeletesOrderings(cx, p, unexpanded) ==
    LET ds == achieves_composite(cx, unexpanded.action)
    IN \E i \in 1..Len(ds) :
           add_decomposition_frame(cx, p, unexpanded, ds[i]).deleted_orderings

(***************************************************************************)
(* Flaws, flaw selection, refinement dispatch and ranks.                   *)
(***************************************************************************)
Flaw(k, f) == [kind |-> k, flaw |-> f]

\* Every flaw of a plan.
Flaws(p) ==
    {Flaw("unsafe", p.unsafes[i]) : i \in 1..Len(p.unsafes)}
    \cup {Flaw("open", p.open_conds[i]) : i \in 1..Len(p.open_conds)}
    \cup {Flaw("unexpanded", p.unexpanded_steps[i]) :
             i \in 1..Len(p.unexpanded_steps)}
    \cup {Flaw("mutex", p.mutex_threats[i]) : i \in 1..Len(p.mutex_threats)}

\* FlawSelectionOrder::select for the two selection orders of the model:
\* order 1 takes threats first, then the newest open condition, then
\* unexpanded steps, then mutex threats; order 2 takes mutex threats first,
\* then unexpanded steps, then the oldest open condition, then threats.
SelectFlaw(p, order) ==
    IF order = 1
    THEN IF Len(p.unsafes) > 0 THEN Flaw("unsafe", p.unsafes[1])
         ELSE IF Len(p.open_conds) > 0 THEN Flaw("open", p.open_conds[1])
         ELSE IF Len(p.unexpanded_steps) > 0
         THEN Flaw("unexpanded", p.unexpanded_steps[1])
         ELSE Flaw("mutex", p.mutex_threats[1])
    ELSE IF Len(p.mutex_threats) > 0 THEN Flaw("mutex", p.mutex_threats[1])
         ELSE IF Len(p.unexpanded_steps) > 0
         THEN Flaw("unexpanded", p.unexpanded_steps[1])
         ELSE IF Len(p.open_conds) > 0
         THEN Flaw("open", p.open_conds[Len(p.open_conds)])
         ELSE Flaw("unsafe", p.unsafes[1])

\* Plan::refinements, for the flaw the selection order returned
refinements(cx, p, f) ==
    CASE f.kind = "unsafe" -> handle_unsafe(cx, p, f.flaw)
      [] f.kind = "open" -> handle_open_condition(cx, p, f.flaw)
      [] f.kind = "unexpanded" ->
             handle_unexpanded_composite_step(cx, p, f.flaw)
      [] f.kind = "mutex" -> handle_mutex_threat(cx, p, f.flaw)

\* Heuristic::plan_rank: the rank of a plan is <<number of steps plus
\* number of open conditions, serial number>>; the first is infinite when
\* an open atom has no achiever.
Rank(cx, p) ==
    LET unreachable == \E i \in 1..Len(p.open_conds) :
            /\ IsLiteralCond(p.open_conds[i])
            /\ ~p.open_conds[i].condition.neg
            /\ Len(literal_achievers(cx, p.open_conds[i].condition)) = 0
    IN << IF unreachable THEN Infinity
          ELSE p.num_steps + p.num_open_conds,
          p.id >>

\* Plan::primary_rank
primary_rank(cx, p) == Rank(cx, p)[1]

\* The float that is not a number: infinity minus infinity.
NaN == 0 - Infinity - 1

\* The float difference of two ranks.
RankDiff(a, b) ==
    IF a = Infinity /\ b = Infinity THEN NaN
    ELSE IF a = Infinity THEN Infinity
    ELSE IF b = Infinity THEN 0 - Infinity
    ELSE a - b

\* The loop of operator<: the first non-zero difference of the ranks from
\* index i (0-based) on.
RECURSIVE RankLoop(_, _, _, _)
RankLoop(r1, r2, i, diff) ==
    IF i < Len(r1) /\ diff = 0
    THEN RankLoop(r1, r2, i + 1, RankDiff(r1[i + 1], r2[i + 1]))
    ELSE diff

\* operator< with the test of the difference turned round.
RankLessReversed(r1, r2) ==
    RankLoop(r1, r2, 1, RankDiff(r1[1], r2[1])) < 0

\* operator<(p1, p2) on the ranks of the two plans
RankLess(r1, r2) == RankLoop(r1, r2, 1, RankDiff(r1[1], r2[1])) > 0

PlanLess(cx, p1, p2) == RankLess(Rank(cx, p1), Rank(cx, p2))

\* PlanQueue::top: a plan of the queue that is less than no other.
Tops(cx, queue) ==
    {p \in queue : \A q \in queue : ~PlanLess(cx, p, q)}

(***************************************************************************)
(* The search driver Plan::plan.                                           *)
(***************************************************************************)
VARIABLES
    params,             \* the problem and the planning parameters
    pc,                 \* the position of the driver
    initial_plan,
    current_plan,
    plans,              \* the queue of pending plans of every flaw order
    generated_plans,    \* the plans generated under every flaw order
    num_generated_plans,
    dead_queues,        \* the flaw orders whose queues are dead
    current_flaw_order,
    flaw_orders_left,
    switch_doublings,   \* next_switch is 1000 doubled this many times
    f_limit,
    next_f_limit,
    instantiated,
    num_dead_ends,      \* the expansions that added no plan to a queue
    call                \* the last call of a function on its own: its
                        \* arguments and what it returned

vars == <<params, pc, initial_plan, current_plan, plans, generated_plans,
          num_generated_plans, dead_queues, current_flaw_order,
          flaw_orders_left, switch_doublings, f_limit, next_f_limit,
          instantiated, num_dead_ends, call>>

\* No function has been called on its own.
NoCall == [op |-> "none"]

Cx == Context(params.problem, params.strip_static_preconditions,
              params.ground_actions)

\* The values drawn for a search limit.
SearchLimits == {0, 1, 3, MaxSearchLimit}

\* The parameters the search is run with.  Actions are taken as ground only
\* for problems whose actions have no parameters, and static preconditions
\* are stripped only where there are static predicates.
Parameters ==
    {pr \in [problem : 1..NumProblems,
             search_algorithm : {"BEST_FIRST", "IDA_STAR"},
             flaw_orders : {<<1>>, <<1, 2>>},
             search_limits : UNION {[1..n -> SearchLimits] : n \in 1..2},
             ground_actions : BOOLEAN,
             strip_static_preconditions : BOOLEAN] :
        /\ Len(pr.search_limits) = Len(pr.flaw_orders)
        /\ pr.ground_actions =>
               \A i \in 1..Len(Problems[pr.problem].actions) :
                   Len(Problems[pr.problem].actions[i].parameters) = 0
        /\ pr.strip_static_preconditions =>
               Problems[pr.problem].static # {}}

\* size_t flaw_orders_left--
SizeTDecrement(n) == IF n = 0 THEN SizeTMax ELSE n - 1

\* generated >= next_switch, where next_switch is 1000 * 2^doublings
\* modulo 2^64
ReachesNextSwitch(generated, doublings) ==
    IF doublings >= NextSwitchWrap THEN TRUE
    ELSE generated >= NextSwitchInit * (2 ^ Min(doublings, 20))

\* The state in which Plan::plan enters its do-while loop.
StartOfSearch ==
    /\ params \in Parameters
    /\ pc = "loop"
    /\ initial_plan = make_initial_plan(Cx)
    /\ current_plan = initial_plan
    /\ plans = [i \in 1..Len(params.flaw_orders) |-> {}]
    /\ generated_plans = [i \in 1..Len(params.flaw_orders) |->
                             IF i = 1 THEN 1 ELSE 0]
    /\ num_generated_plans = 1
    /\ dead_queues = <<>>
    /\ current_flaw_order = 0
    /\ flaw_orders_left = Len(params.flaw_orders)
    /\ switch_doublings = 0
    /\ f_limit = IF ~IsNull(initial_plan)
                    /\ params.search_algorithm = "IDA_STAR"
                 THEN primary_rank(Cx, initial_plan)
                 ELSE Infinity
    /\ next_f_limit = Infinity
    /\ instantiated = FALSE
    /\ num_dead_ends = 0

Init == StartOfSearch /\ call = NoCall

\* The amortized cleanup of dead queues: n more rounds.  Taking the top of
\* an empty dead queue is undefined; ub records that it happened, and the
\* rounds go on as if the queue had been dropped.
RECURSIVE CleanupDeadQueues(_, _, _, _, _)
CleanupDeadQueues(cx, ps, dq, n, ub) ==
    IF n = 0 \/ Len(dq) = 0
    THEN {[plans |-> ps, dead_queues |-> dq, ub |-> ub]}
    ELSE LET o == dq[Len(dq)]
             queue == ps[o + 1]
         IN IF queue = {}
            THEN CleanupDeadQueues(cx, ps, SubSeq(dq, 1, Len(dq) - 1),
                                   n - 1, TRUE)
            ELSE UNION {
                   LET rest == queue \ {top}
                   IN CleanupDeadQueues(cx, [ps EXCEPT ![o + 1] = rest],
                          IF rest = {} THEN SubSeq(dq, 1, Len(dq) - 1)
                          ELSE dq,
                          n - 1, ub) : top \in Tops(cx, queue)}

\* The loop that adds the children of the current plan to the queue of the
\* current flaw order.  st holds the queue, the two counters and
\* next_f_limit.
RECURSIVE AddChildrenWhateverTheirRank(_, _, _, _, _)
\* The loop without the test of f_limit.
AddChildrenWhateverTheirRank(cx, children, limit, ida_limit, st) ==
    IF Len(children) = 0 THEN st
    ELSE LET new_plan == [Head(children) EXCEPT !.id = st.num_generated]
             rank == primary_rank(cx, new_plan)
         IN AddChildrenWhateverTheirRank(cx, Tail(children), limit,
              ida_limit,
              IF rank # Infinity /\ st.generated < limit
              THEN [st EXCEPT !.queue = @ \cup {new_plan},
                              !.generated = @ + 1,
                              !.num_generated = @ + 1,
                              !.added = TRUE]
              ELSE st)

RECURSIVE AddChildrenNumberedPerOrder(_, _, _, _, _)
\* The loop with the serial number taken from the count of the flaw order.
AddChildrenNumberedPerOrder(cx, children, limit, ida_limit, st) ==
    IF Len(children) = 0 THEN st
    ELSE LET new_plan == [Head(children) EXCEPT !.id = st.generated]
             rank == primary_rank(cx, new_plan)
         IN AddChildrenNumberedPerOrder(cx, Tail(children), limit,
              ida_limit,
              IF rank # Infinity /\ st.generated < limit
              THEN IF params.search_algorithm = "IDA_STAR" /\ rank > ida_limit
                   THEN [st EXCEPT !.next_f_limit = Min(@, rank)]
                   ELSE [st EXCEPT !.queue = @ \cup {new_plan},
                                   !.generated = @ + 1,
                                   !.num_generated = @ + 1,
                                   !.added = TRUE]
              ELSE st)

RECURSIVE AddChildren(_, _, _, _, _)
AddChildren(cx, children, limit, ida_limit, st) ==
    IF Len(children) = 0 THEN st
    ELSE LET new_plan == [Head(children) EXCEPT !.id = st.num_generated]
             rank == primary_rank(cx, new_plan)
         IN AddChildren(cx, Tail(children), limit, ida_limit,
              IF rank # Infinity /\ st.generated < limit
              THEN IF params.search_algorithm = "IDA_STAR" /\ rank > ida_limit
                   THEN [st EXCEPT !.next_f_limit = Min(@, rank)]
                   ELSE [st EXCEPT !.queue = @ \cup {new_plan},
                                   !.generated = @ + 1,
                                   !.num_generated = @ + 1,
                                   !.added = TRUE]
              ELSE st)

\* The refinements of the current plan added to the queue of the current
\* flaw order o (1-based), after the cleanup of dead queues with outcome c:
\* the queue, the counters, next_f_limit and whether the search limit of
\* the flaw order is reached; undefined tells whether the cleanup took the
\* top of an empty queue or the refinement deleted the orderings of the
\* current plan.
Expansion(cx, c, o) ==
    LET flaw == SelectFlaw(current_plan, params.flaw_orders[o])
    IN [AddChildren(cx, refinements(cx, current_plan, flaw),
                    params.search_limits[o], f_limit,
                    [queue |-> c.plans[o],
                     generated |-> generated_plans[o],
                     num_generated |-> num_generated_plans,
                     next_f_limit |-> next_f_limit,
                     added |-> FALSE,
                     undefined |-> FALSE])
        EXCEPT !.undefined =
            c.ub \/ (IF flaw.kind = "unexpanded"
                     THEN DeletesOrderings(cx, current_plan, flaw.flaw)
                     ELSE FALSE)]

\* One iteration of the inner while loop up to the choice of the next plan:
\* the cleanup of dead queues, the refinements of the current plan, and the
\* test of the search limit of the current flaw order.
Expand ==
    /\ pc = "loop"
    /\ ~IsNull(current_plan)
    /\ ~NonNullComplete(current_plan)
    /\ \E c \in CleanupDeadQueues(Cx, plans, dead_queues, DeadQueueQuota,
                                  FALSE) :
       \E st \in {Expansion(Cx, c, current_flaw_order + 1)} :
       \E limit_reached \in {st.generated >=
                  params.search_limits[current_flaw_order + 1]} :
       \E left \in {IF limit_reached THEN SizeTDecrement(flaw_orders_left)
                    ELSE flaw_orders_left} :
           \/ /\ st.undefined
              /\ pc' = "crash"
              /\ UNCHANGED <<current_plan, plans, generated_plans,
                             num_generated_plans, dead_queues,
                             flaw_orders_left, next_f_limit, num_dead_ends>>
           \/ /\ plans' = [c.plans EXCEPT
                              ![current_flaw_order + 1] = st.queue]
              /\ generated_plans' = [generated_plans EXCEPT
                              ![current_flaw_order + 1] = st.generated]
              /\ num_generated_plans' = st.num_generated
              /\ next_f_limit' = st.next_f_limit
              /\ num_dead_ends' = IF st.added THEN num_dead_ends
                                  ELSE num_dead_ends + 1
              /\ flaw_orders_left' = left
              /\ dead_queues' = IF limit_reached
                                THEN Append(c.dead_queues,
                                            current_flaw_order)
                                ELSE c.dead_queues
              /\ IF left > 0
                 THEN /\ pc' = IF limit_reached
                                  \/ ReachesNextSwitch(st.generated,
                                                       switch_doublings)
                               THEN "rotate" ELSE "next"
                      /\ UNCHANGED current_plan
                 ELSE /\ pc' = "pass_end"
                      /\ current_plan' = IF st.next_f_limit # Infinity
                                         THEN NullPlan ELSE current_plan
    /\ UNCHANGED <<params, initial_plan, current_flaw_order,
                   switch_doublings, f_limit, instantiated, call>>

\* One iteration of the do-while loop that looks for the next flaw order
\* whose search limit is not reached.
Rotate ==
    /\ pc = "rotate"
    /\ LET wrap == current_flaw_order + 1 >= Len(params.flaw_orders)
           o == IF wrap THEN 0 ELSE current_flaw_order + 1
       IN /\ current_flaw_order' = o
          /\ switch_doublings' = IF wrap
                                 THEN Min(switch_doublings + 1,
                                          NextSwitchWrap)
                                 ELSE switch_doublings
          /\ pc' = IF generated_plans[o + 1] >= params.search_limits[o + 1]
                   THEN "rotate" ELSE "next"
    /\ UNCHANGED <<params, initial_plan, current_plan, plans,
                   generated_plans, num_generated_plans, dead_queues,
                   flaw_orders_left, f_limit, next_f_limit, instantiated,
                   num_dead_ends, call>>

\* The choice of the next plan: the initial plan for a flaw order that has
\* generated nothing, else the top of its queue, or NULL when it is empty.
NextPlan ==
    /\ pc = "next"
    /\ LET o == current_flaw_order + 1
       IN IF generated_plans[o] = 0
          THEN /\ current_plan' = initial_plan
               /\ generated_plans' = [generated_plans EXCEPT ![o] = 1]
               /\ num_generated_plans' = num_generated_plans + 1
               /\ UNCHANGED plans
          ELSE /\ IF plans[o] = {}
                  THEN /\ current_plan' = NullPlan
                       /\ UNCHANGED plans
                  ELSE \E top \in Tops(Cx, plans[o]) :
                          /\ current_plan' = top
                          /\ plans' = [plans EXCEPT ![o] = @ \ {top}]
               /\ UNCHANGED <<generated_plans, num_generated_plans>>
    /\ instantiated' = params.ground_actions
    /\ pc' = "inst"
    /\ UNCHANGED <<params, initial_plan, dead_queues, current_flaw_order,
                   flaw_orders_left, switch_doublings, f_limit,
                   next_f_limit, num_dead_ends, call>>

\* One iteration of the loop that instantiates the actions of a plan that
\* is otherwise complete, or the exit from that loop.
Instantiate ==
    /\ pc = "inst"
    /\ IF NonNullComplete(current_plan) /\ ~instantiated
       THEN LET o == current_flaw_order + 1
                new_bindings == step_instantiation(Cx, current_plan.steps, 0,
                                                   current_plan.bindings)
            IN /\ pc' = "inst"
               /\ IF Len(new_bindings) > 0
                  THEN /\ instantiated' = TRUE
                       /\ current_plan' =
                            IF new_bindings[1] # current_plan.bindings
                            THEN Plan(current_plan.steps,
                                      current_plan.num_steps,
                                      current_plan.links,
                                      current_plan.num_links,
                                      current_plan.orderings,
                                      new_bindings[1],
                                      current_plan.decomposition_frames,
                                      current_plan.num_decomposition_frames,
                                      current_plan.decomposition_links,
                                      current_plan.num_decomposition_links,
                                      <<>>, 0, <<>>, 0, <<>>, 0, <<>>)
                            ELSE current_plan
                       /\ UNCHANGED plans
                  ELSE /\ UNCHANGED instantiated
                       /\ IF plans[o] = {}
                          THEN /\ current_plan' = NullPlan
                               /\ UNCHANGED plans
                          ELSE \E top \in Tops(Cx, plans[o]) :
                                  /\ current_plan' = top
                                  /\ plans' = [plans EXCEPT
                                                  ![o] = @ \ {top}]
       ELSE /\ pc' = "loop"
            /\ UNCHANGED <<current_plan, plans, instantiated>>
    /\ UNCHANGED <<params, initial_plan, generated_plans,
                   num_generated_plans, dead_queues, current_flaw_order,
                   flaw_orders_left, switch_doublings, f_limit,
                   next_f_limit, num_dead_ends, call>>

\* The end of a pass that returns whatever next_f_limit is.
EndPassWithoutRestart ==
    /\ \/ pc = "pass_end"
       \/ pc = "loop" /\ (IF IsNull(current_plan) THEN TRUE
                          ELSE complete(current_plan))
    /\ pc' = "done"
    /\ f_limit' = IF NonNullComplete(current_plan) THEN f_limit
                  ELSE next_f_limit
    /\ UNCHANGED <<params, initial_plan, current_plan, plans,
                   generated_plans, num_generated_plans, dead_queues,
                   current_flaw_order, flaw_orders_left, switch_doublings,
                   next_f_limit, instantiated, num_dead_ends, call>>

\* The end of a pass of the outer do-while loop: the inner loop is left with
\* a NULL or complete current plan, or by its break.  The search returns
\* with a complete plan or when next_f_limit is infinite, and restarts from
\* the initial plan otherwise.
EndPass ==
    /\ \/ pc = "pass_end"
       \/ pc = "loop" /\ (IF IsNull(current_plan) THEN TRUE
                          ELSE complete(current_plan))
    /\ IF NonNullComplete(current_plan)
       THEN /\ pc' = "done"
            /\ UNCHANGED <<current_plan, f_limit, next_f_limit>>
       ELSE /\ f_limit' = next_f_limit
            /\ IF next_f_limit # Infinity
               THEN /\ current_plan' = initial_plan
                    /\ next_f_limit' = Infinity
                    /\ pc' = "loop"
               ELSE /\ pc' = "done"
                    /\ UNCHANGED <<current_plan, next_f_limit>>
    /\ UNCHANGED <<params, initial_plan, plans, generated_plans,
                   num_generated_plans, dead_queues, current_flaw_order,
                   flaw_orders_left, switch_doublings, instantiated,
                   num_dead_ends, call>>

Next == Expand \/ Rotate \/ NextPlan \/ Instantiate \/ EndPass

Spec == Init /\ [][Next]_vars

(***************************************************************************)
(* The space of plans: every plan that refinements reach from the initial  *)
(* plan of a problem, whatever flaw is selected and whichever successor is *)
(* taken.  The plan is held in current_plan; the variables of the driver   *)
(* keep the values they have when the search starts.                       *)
(***************************************************************************)
PlanInit ==
    /\ Init
    /\ params.search_algorithm = "BEST_FIRST"
    /\ params.search_limits = <<MaxSearchLimit>>
    /\ ~IsNull(initial_plan)

\* The plan under refinement is replaced by one of the given successors
\* that has at most MaxPlanSteps steps.
TakeSuccessor(successors) ==
    /\ \E i \in 1..Len(successors) :
          /\ successors[i].num_steps <= MaxPlanSteps
          /\ current_plan' = successors[i]
    /\ call' = NoCall
    /\ UNCHANGED <<params, pc, initial_plan, plans, generated_plans,
                   num_generated_plans, dead_queues, current_flaw_order,
                   flaw_orders_left, switch_doublings, f_limit,
                   next_f_limit, instantiated, num_dead_ends>>

RefineUnsafe ==
    \E i \in 1..Len(current_plan.unsafes) :
        TakeSuccessor(handle_unsafe(Cx, current_plan,
                                    current_plan.unsafes[i]))

RefineOpenCondition ==
    \E i \in 1..Len(current_plan.open_conds) :
        TakeSuccessor(handle_open_condition(Cx, current_plan,
                                            current_plan.open_conds[i]))

RefineUnexpandedCompositeStep ==
    \E i \in 1..Len(current_plan.unexpanded_steps) :
        TakeSuccessor(handle_unexpanded_composite_step(Cx, current_plan,
                          current_plan.unexpanded_steps[i]))

\* Of the mutex threats, flaw selection only ever takes the first of the
\* chain.
RefineMutexThreat ==
    /\ Len(current_plan.mutex_threats) > 0
    /\ TakeSuccessor(handle_mutex_threat(Cx, current_plan,
                                         current_plan.mutex_threats[1]))

PlanNext ==
    \/ RefineUnsafe
    \/ RefineOpenCondition
    \/ RefineUnexpandedCompositeStep
    \/ RefineMutexThreat

SpecPlan == PlanInit /\ [][PlanNext]_vars

(***************************************************************************)
(* The counts of refinements on their own: open_cond_refinements and       *)
(* unexpanded_step_refinements called on a plan of the space of plans,     *)
(* with counts that are not known yet.                                     *)
(***************************************************************************)
\* The open conditions that are an inequality between the parameters of two
\* steps of the plan.
InequalityOpenConds(cx, p) ==
    LET with_parameter == {i \in 1..Len(p.steps) :
            /\ p.steps[i].action \notin {"<init>", ""}
            /\ Len(ActionOf(cx, p.steps[i].action).parameters) > 0}
        v(i) == ActionOf(cx, p.steps[i].action).parameters[1]
    IN {OpenCondition(p.steps[q[1]].id,
                      Inequality(v(q[1]), p.steps[q[1]].id,
                                 v(q[2]), p.steps[q[2]].id),
                      "AT_START") :
            q \in {r \in with_parameter \X with_parameter : r[1] # r[2]}}

CountOpenCondRefinements ==
    /\ \E open_cond \in Range(current_plan.open_conds)
                          \cup InequalityOpenConds(Cx, current_plan) :
       \E limit \in 0..MaxCountLimit :
           call' = [op |-> "open_cond_refinements",
                    open_cond |-> open_cond, limit |-> limit,
                    result |-> open_cond_refinements(Cx, current_plan,
                                   -1, -1, -1, open_cond, limit)]
    /\ UNCHANGED <<params, pc, initial_plan, current_plan, plans,
                   generated_plans, num_generated_plans, dead_queues,
                   current_flaw_order, flaw_orders_left, switch_doublings,
                   f_limit, next_f_limit, instantiated, num_dead_ends>>

CountUnexpandedStepRefinements ==
    /\ \E unexpanded_step \in Range(current_plan.unexpanded_steps) :
       \E limit \in 0..MaxCountLimit :
           call' = [op |-> "unexpanded_step_refinements",
                    unexpanded_step |-> unexpanded_step, limit |-> limit,
                    result |-> unexpanded_step_refinements(Cx, current_plan,
                                   -1, -1, unexpanded_step, limit)]
    /\ UNCHANGED <<params, pc, initial_plan, current_plan, plans,
                   generated_plans, num_generated_plans, dead_queues,
                   current_flaw_order, flaw_orders_left, switch_doublings,
                   f_limit, next_f_limit, instantiated, num_dead_ends>>

CountNext ==
    \/ PlanNext
    \/ CountOpenCondRefinements
    \/ CountUnexpandedStepRefinements

\* The counts are taken on the plans of the problems 1 to 14.
CountProblems == {q \in 1..NumProblems : q < 15}

CountInit ==
    /\ PlanInit
    /\ params.problem \in CountProblems

SpecCount == CountInit /\ [][CountNext]_vars

(***************************************************************************)
(* Goal admission on its own: add_goal called once on a formula, with a    *)
(* chain of open conditions, a count and a binding list that may already   *)
(* hold something.  The problem is the one with two objects and the static *)
(* predicate s.                                                            *)
(***************************************************************************)
\* The formulas admitted: each variant of the formulas, universals whose
\* base is a conjunction, TRUE and FALSE, and a conjunction with such a
\* universal as a conjunct.
GoalFormulas ==
    { FTrue, FFalse,
      Atom("p", ""), Negation("p", ""), Atom("s", "o1"),
      TimedLiteral(Atom("p", ""), "AT_END"),
      TimedLiteral(Atom("s", "o1"), "OVER_ALL"),
      FAnd(Atom("p", ""), Atom("q", "")),
      FAnd(Atom("p", ""), Inequality("?x", 0, "o1", 0)),
      FAnd(Atom("p", ""), FOr(Atom("q", ""), Atom("s", "o2"))),
      FOr(Atom("p", ""), Atom("q", "")),
      Equality("?x", 0, "o1", 0),
      Inequality("?x", 0, "?y", 0),
      Exists("?x", Atom("at", "?x")),
      Exists("?x", FAnd(Atom("at", "?x"), Inequality("?x", 0, "o2", 0))),
      Forall("?x", Atom("at", "?x")),
      Forall("?x", Inequality("?x", 0, "?y", 0)),
      Forall("?x", Inequality("?x", 0, "o3", 0)),
      Forall("?x", Equality("?x", 0, "o1", 0)),
      FAnd(Atom("p", ""), Forall("?x", Inequality("?x", 0, "o3", 0))),
      Exists("?y", Forall("?x", Equality("?x", 0, "?x", 0))) }

\* The calls of add_goal made.
AddGoalCalls ==
    [op : {"add_goal"},
     open_conds : {<<>>, << OpenCondition(1, Atom("q", ""), "AT_START") >>},
     extra_count : {0, 1},
     new_bindings : {<<>>, << Binding("?z", 1, "o1", 0, TRUE) >>},
     goal : GoalFormulas,
     step_id : {1, GOAL_ID},
     test_only : BOOLEAN,
     result : {<<>>}]

\* num_open_conds when add_goal is called: the length of the chain, and one
\* more when a static open condition was stripped before.
NumOpenCondsOf(c) == Len(c.open_conds) + c.extra_count

GoalInit ==
    /\ StartOfSearch
    /\ params.problem = 5
    /\ params.search_algorithm = "BEST_FIRST"
    /\ params.search_limits = <<MaxSearchLimit>>
    /\ call \in AddGoalCalls
    /\ call.extra_count = 1 => params.strip_static_preconditions

\* The call of add_goal: result holds what it returned and its in/out
\* arguments.
AdmitGoal ==
    /\ call.op = "add_goal"
    /\ Len(call.result) = 0
    /\ call' = [call EXCEPT !.result =
                   << add_goal(Cx, call.open_conds, NumOpenCondsOf(call),
                               call.new_bindings, call.goal, call.step_id,
                               call.test_only) >>]
    /\ UNCHANGED <<params, pc, initial_plan, current_plan, plans,
                   generated_plans, num_generated_plans, dead_queues,
                   current_flaw_order, flaw_orders_left, switch_doublings,
                   f_limit, next_f_limit, instantiated, num_dead_ends>>

SpecGoal == GoalInit /\ [][AdmitGoal]_vars

(***************************************************************************)
(* Properties of the search driver.                                        *)
(***************************************************************************)
\* All four flaw chains of a plan are empty.
AllFlawChainsEmpty(p) ==
    Len(p.unsafes) + Len(p.open_conds) + Len(p.mutex_threats)
        + Len(p.unexpanded_steps) = 0

\* The driver has returned.
Returned == pc = "done"

ReturnedNull == Returned /\ IsNull(current_plan)

ReturnedIncomplete ==
    /\ Returned
    /\ IF IsNull(current_plan) THEN FALSE
       ELSE ~AllFlawChainsEmpty(current_plan)

\* Every flaw order has reached its search limit.
AllLimitsReached ==
    \A i \in 1..Len(params.flaw_orders) :
        generated_plans[i] >= params.search_limits[i]

\* C1, as stated: Plan::plan returns null or a plan whose four flaw chains
\* are empty, however the search stops.
C1_ReturnsNullOrComplete == Returned => ~ReturnedIncomplete

\* C1, amended: Plan::plan returns null, a plan whose four flaw chains are
\* empty, or -- when every flaw order has reached its search limit and
\* next_f_limit is infinite -- the plan it expanded last, which has flaws.
C1_ReturnsNullCompleteOrLastPlan ==
    ReturnedIncomplete =>
        /\ flaw_orders_left = 0
        /\ next_f_limit = Infinity
        /\ AllLimitsReached

\* C1: the search has stopped at its limits with a plan that has flaws.
C1_Witness == ReturnedIncomplete /\ AllLimitsReached

\* Some flaw order other than the current one has a pending plan or has
\* not been started, and has not reached its search limit.
OtherOrderLive ==
    \E i \in 1..Len(params.flaw_orders) :
        /\ i # current_flaw_order + 1
        /\ generated_plans[i] < params.search_limits[i]
        /\ plans[i] # {} \/ generated_plans[i] = 0

\* C2, as stated: the driver returns null only when the queues of all flaw
\* orders are empty and next_f_limit is infinite, and never while a live
\* flaw order has a pending plan or has not been started.
C2_FailsOnlyWhenAllQueuesEmpty ==
    (ReturnedNull /\ ~IsNull(initial_plan)) =>
        /\ \A i \in 1..Len(params.flaw_orders) : plans[i] = {}
        /\ next_f_limit = Infinity
        /\ ~OtherOrderLive

\* C2, amended: the driver returns null only when the queue of the current
\* flaw order is empty and next_f_limit is infinite; the other flaw orders
\* may still have pending plans or not have been started.
C2_FailsOnlyWhenCurrentQueueEmpty ==
    ReturnedNull =>
        /\ plans[current_flaw_order + 1] = {}
        /\ next_f_limit = Infinity

\* C2: the search has failed on the empty queue of the current flaw order
\* while another flaw order is live.
C2_Witness ==
    /\ ReturnedNull
    /\ ~IsNull(initial_plan)
    /\ plans[current_flaw_order + 1] = {}
    /\ OtherOrderLive

\* C3: the search limits being finite, the loop that looks for the next
\* flaw order ends, and with it the search: whenever the driver is in that
\* loop some flaw order is below its search limit.
C3_RotationLoopEnds == pc = "rotate" => ~AllLimitsReached

\* Every parameter of the action of every step of plan p is bound to an
\* object.
ParametersBound(cx, p) ==
    \A i \in 1..Len(p.steps) :
        \A v \in Range(ActionOf(cx, p.steps[i].action).parameters) :
            ~IsVariable(BindingOf(p.bindings, v, p.steps[i].id))

\* The parameters of the steps of plan p, as nodes of its bindings.
ParameterNodes(cx, p) ==
    UNION {{<<v, p.steps[i].id>> :
               v \in Range(ActionOf(cx, p.steps[i].action).parameters)} :
           i \in 1..Len(p.steps)}

\* Some assignment of objects to the parameters of the steps of plan p is
\* consistent with its bindings.
Instantiable(cx, p) ==
    \E a \in [ParameterNodes(cx, p) -> cx.problem.objects] :
        ConsistentBindings(p.bindings \cup
            {Binding(n[1], n[2], a[n], 0, TRUE) : n \in ParameterNodes(cx, p)})

\* The driver is about to instantiate the actions of a plan without flaws.
AtInstantiation ==
    pc = "inst" /\ NonNullComplete(current_plan) /\ ~instantiated

\* The current plan is replaced by the top of the queue of the current flaw
\* order, or by NULL when that queue is empty.
NextOfQueue ==
    LET queue == plans[current_flaw_order + 1]
    IN IF queue = {} THEN current_plan' = NullPlan /\ UNCHANGED plans
       ELSE /\ current_plan' \in queue
            /\ plans' = [plans EXCEPT
                            ![current_flaw_order + 1] = @ \ {current_plan'}]

\* C4: when actions are not ground, a plan without flaws that Plan::plan
\* returns has every parameter of every step bound to an object; a plan
\* without flaws whose parameters cannot be bound to objects is not
\* returned, the next plan of the queue is taken in its place.
C4_ReturnedPlanInstantiated ==
    /\ [](Returned /\ ~params.ground_actions
          /\ NonNullComplete(current_plan)
             => ParametersBound(Cx, current_plan))
    /\ [][AtInstantiation =>
            IF Instantiable(Cx, current_plan)
            THEN /\ ParametersBound(Cx, current_plan')
                 /\ current_plan'.steps = current_plan.steps
            ELSE NextOfQueue]_vars

\* C4: a plan whose steps have parameters is returned after the driver has
\* instantiated its actions.
C4_Witness ==
    /\ Returned
    /\ ~params.ground_actions
    /\ instantiated
    /\ NonNullComplete(current_plan)
    /\ IF IsNull(current_plan) THEN FALSE
       ELSE ParameterNodes(Cx, current_plan) # {}

\* Rank tuple r1 is lexicographically less than rank tuple r2.
LexLess(r1, r2) ==
    \E i \in 1..Len(r1) :
        /\ r1[i] < r2[i]
        /\ \A j \in 1..(i - 1) : r1[j] = r2[j]

\* A plan is taken off the queue of the current flaw order.
PlanPopped ==
    /\ pc \in {"next", "inst"}
    /\ plans' # plans

\* C5: operator< puts p1 below p2 exactly when the rank tuple of p1 is
\* lexicographically greater than that of p2, for the plans of every queue;
\* and the plan popped from the queue of a flaw order has a rank tuple that
\* is lexicographically minimal among the plans of that queue.
C5_TopIsSmallestRank ==
    /\ [](\A o \in 1..Len(plans) : \A p1, p2 \in plans[o] :
             PlanLess(Cx, p1, p2)
                 <=> LexLess(Rank(Cx, p2), Rank(Cx, p1)))
    /\ [][PlanPopped =>
            \A q \in plans[current_flaw_order + 1] :
                ~LexLess(Rank(Cx, q), Rank(Cx, current_plan'))]_vars

\* C5: a plan has been popped from a queue that holds a plan of greater
\* primary rank.
C5_Witness ==
    /\ pc = "inst"
    /\ IF IsNull(current_plan) THEN FALSE
       ELSE /\ current_plan.id > 0
            /\ \E q \in plans[current_flaw_order + 1] :
                  primary_rank(Cx, q) > primary_rank(Cx, current_plan)

(***************************************************************************)
(* Properties of the plans that refinements reach.                         *)
(***************************************************************************)
\* The ids of the steps of plan p.
StepIds(p) == {p.steps[i].id : i \in 1..Len(p.steps)}

\* C6: each flaw count of a plan equals the length of its chain.
C6_CountsEqualChainLengths ==
    /\ current_plan.num_open_conds = Len(current_plan.open_conds)
    /\ current_plan.num_unsafes = Len(current_plan.unsafes)
    /\ current_plan.num_unexpanded_steps = Len(current_plan.unexpanded_steps)

\* The number of decomposition links of plan p whose composite step is id.
NumDecompositionLinksOf(p, id) ==
    Cardinality({k \in 1..Len(p.decomposition_links) :
                    p.decomposition_links[k].composite_id = id})

\* The number of UnexpandedCompositeStep flaws of plan p for step id.
NumUnexpandedFlawsOf(p, id) ==
    Cardinality({k \in 1..Len(p.unexpanded_steps) :
                    p.unexpanded_steps[k].step_id = id})

\* The ids of the composite steps of plan p.
CompositeStepIds(cx, p) ==
    {p.steps[i].id : i \in {k \in 1..Len(p.steps) :
                             ActionOf(cx, p.steps[k].action).composite}}

\* C7: every composite step of a plan has exactly one decomposition link
\* or exactly one UnexpandedCompositeStep flaw, never neither and never
\* both; so a plan without flaws has no composite step without a
\* decomposition link.
C7_CompositeStepLinkedOrFlawed ==
    \A id \in CompositeStepIds(Cx, current_plan) :
        /\ NumDecompositionLinksOf(current_plan, id)
              + NumUnexpandedFlawsOf(current_plan, id) = 1
        /\ AllFlawChainsEmpty(current_plan)
              => NumDecompositionLinksOf(current_plan, id) >= 1

\* C8: the ids of the steps of a plan are 0 .. num_steps and GOAL_ID, no id
\* occurring twice; a refinement gives its new steps the ids that follow
\* num_steps: one for a step added, as many as the frame has pseudo-steps
\* for an expansion.
C8_StepIdsDense ==
    /\ [](/\ StepIds(current_plan)
               = (0..current_plan.num_steps) \cup {GOAL_ID}
          /\ Len(current_plan.steps) = current_plan.num_steps + 2)
    /\ [][/\ StepIds(current_plan') \ StepIds(current_plan)
               = (current_plan.num_steps + 1)..current_plan'.num_steps
          /\ IF current_plan'.num_decomposition_links
                  > current_plan.num_decomposition_links
             THEN current_plan'.num_steps = current_plan.num_steps
                     + Len(current_plan'.decomposition_links[1].frame.steps)
             ELSE current_plan'.num_steps <= current_plan.num_steps + 1]_vars

\* C8: a plan holds the steps of an expansion and a step added before it.
C8_Witness ==
    /\ current_plan.num_decomposition_links > 0
    /\ current_plan.num_steps
          > Len(current_plan.decomposition_links[1].frame.steps)

\* C9: both ends of every link of a plan are steps of the plan, and its
\* orderings put the producer before the consumer.
C9_LinksWithinPlanAndOrdered ==
    \A i \in 1..Len(current_plan.links) :
        LET l == current_plan.links[i]
        IN /\ l.from_id \in StepIds(current_plan)
           /\ l.to_id \in StepIds(current_plan)
           /\ Before(current_plan.orderings, l.from_id, l.to_id)

\* C9: a plan holds a link made for an open condition and the links of a
\* decomposition frame.
C9_Witness ==
    /\ current_plan.num_decomposition_links > 0
    /\ current_plan.num_links
          > Len(current_plan.decomposition_links[1].frame.link_list)
    /\ \E i \in 1..Len(current_plan.links) :
          /\ current_plan.links[i].from_id # 0
          /\ current_plan.links[i].to_id # GOAL_ID

\* Every flaw of plan p refers to steps and links of p.
FlawsWithinPlan(p) ==
    /\ \A i \in 1..Len(p.unsafes) :
          /\ p.unsafes[i].link \in Range(p.links)
          /\ p.unsafes[i].step_id \in StepIds(p)
    /\ \A i \in 1..Len(p.open_conds) :
          p.open_conds[i].step_id \in StepIds(p)
    /\ \A i \in 1..Len(p.unexpanded_steps) :
          p.unexpanded_steps[i].step_id \in StepIds(p)
    /\ \A i \in 1..Len(p.mutex_threats) :
          /\ p.mutex_threats[i].step_id1 \in StepIds(p)
          /\ p.mutex_threats[i].step_id2 \in StepIds(p)

\* C10: every flaw of a plan refers to steps and links of the plan, and a
\* refinement keeps every step and every link of the plan it refines.
C10_FlawsWithinPlan ==
    /\ [](FlawsWithinPlan(current_plan))
    /\ [][/\ Range(current_plan.steps) \subseteq Range(current_plan'.steps)
          /\ Range(current_plan.links) \subseteq Range(current_plan'.links)
         ]_vars

\* C10: a plan has a threat to one of its links by one of its steps.
C10_Witness ==
    /\ Len(current_plan.unsafes) > 0
    /\ current_plan.num_links > 1

(***************************************************************************)
(* Boundary problems.                                                      *)
(***************************************************************************)
\* The plan the search returns, when it returns a complete one.
ReturnedComplete == Returned /\ NonNullComplete(current_plan)

\* The problem has the empty goal.
EmptyGoal == Tautology(Cx.problem.goal)

\* C11 as stated: for a problem whose goal is empty the initial plan
\* satisfies complete(), so that the search accepts it without a refinement.
C11_InitialPlanComplete == EmptyGoal => NonNullComplete(initial_plan)

\* C11 amended: for a problem whose goal is empty the initial plan has no
\* open condition, threat or unexpanded step, but it holds the place holder
\* of the mutex threats and so is not complete; handling the place holder is
\* its only refinement and yields one plan, which is complete, and a
\* complete plan the search returns is that second plan.
C11_EmptyGoalOneRefinement ==
    EmptyGoal =>
        /\ ~IsNull(initial_plan)
        /\ Len(initial_plan.open_conds) = 0
        /\ Len(initial_plan.unsafes) = 0
        /\ Len(initial_plan.unexpanded_steps) = 0
        /\ initial_plan.mutex_threats = << MutexPlaceHolder >>
        /\ ~complete(initial_plan)
        /\ \A o \in {1, 2} :
              LET successors == refinements(Cx, initial_plan,
                                            SelectFlaw(initial_plan, o))
              IN Len(successors) = 1 /\ complete(successors[1])
        /\ ReturnedComplete =>
              /\ current_plan.id > 0
              /\ num_generated_plans > 1
              /\ [current_plan EXCEPT !.id = 0]
                    = refinements(Cx, initial_plan,
                                  SelectFlaw(initial_plan, 1))[1]

\* The search has returned the complete plan of a problem with the empty
\* goal.
C11_Witness == EmptyGoal /\ ReturnedComplete /\ current_plan.id > 0

\* The goal of the problem is one atom of a static predicate that holds in
\* the initial state.
SingleStaticGoal ==
    LET goal == Cx.problem.goal
    IN /\ goal.kind = "lit"
       /\ ~goal.neg
       /\ StaticPredicate(Cx, goal.pred)
       /\ \E i \in 1..Len(Cx.problem.init) :
              Cx.problem.init[i].literal = goal

\* The only causal link of the plan runs from step 0 to the goal step and
\* carries the goal.
OneLinkToInit(p) ==
    /\ p.num_links = 1
    /\ Len(p.links) = 1
    /\ p.links[1].from_id = 0
    /\ p.links[1].to_id = GOAL_ID
    /\ p.links[1].condition = Cx.problem.goal

\* C12 as stated: for a goal that is one static atom true initially, the
\* plan returned has exactly one causal link, from step 0 to the goal step,
\* with and without strip_static_preconditions.
C12_OneLinkToInit ==
    SingleStaticGoal /\ ReturnedComplete => OneLinkToInit(current_plan)

\* C12 amended: for a goal that is one static atom true initially, the
\* complete plan returned has exactly one causal link, from step 0 to the
\* goal step, when static preconditions are not stripped; when they are
\* stripped the goal never becomes an open condition and the plan returned
\* has no causal link at all.  In both cases the plan has no step but the
\* initial and the goal step.
C12_OneLinkUnlessStripped ==
    SingleStaticGoal /\ ReturnedComplete =>
        /\ current_plan.num_steps = 0
        /\ IF params.strip_static_preconditions
           THEN current_plan.num_links = 0 /\ Len(current_plan.links) = 0
           ELSE OneLinkToInit(current_plan)

\* The search has returned the plan with the one link for a static goal
\* that was not stripped.
C12_Witness ==
    /\ SingleStaticGoal
    /\ ReturnedComplete
    /\ ~params.strip_static_preconditions
    /\ OneLinkToInit(current_plan)

(***************************************************************************)
(* Properties of goal admission.                                           *)
(***************************************************************************)
\* add_goal has been called and has returned or thrown.
GoalAdmitted == call.op = "add_goal" /\ Len(call.result) = 1

\* C13 as stated: add_goal returns false if and only if the formula is a
\* contradiction, and for every other formula of the variants (a universal
\* whose base is a constant included) it returns true and does not throw
\* "unknown kind of goal".
C13_FalseIffContradiction ==
    GoalAdmitted =>
        /\ ~call.result[1].thrown
        /\ call.result[1].ok <=> ~Contradiction(call.goal)

\* C14: admitting a tautology returns true, admitting a contradiction
\* returns false, and both leave the chain of open conditions, the count of
\* open conditions and the binding list as they were.
C14_ConstantsChangeNothing ==
    GoalAdmitted /\ (Tautology(call.goal) \/ Contradiction(call.goal)) =>
        /\ ~call.result[1].thrown
        /\ call.result[1].ok = Tautology(call.goal)
        /\ call.result[1].open_conds = call.open_conds
        /\ call.result[1].num_open_conds = NumOpenCondsOf(call)
        /\ call.result[1].new_bindings = call.new_bindings

\* A contradiction has been admitted where open conditions and bindings
\* were already there.
C14_Witness ==
    /\ GoalAdmitted
    /\ Contradiction(call.goal)
    /\ ~call.result[1].ok
    /\ Len(call.open_conds) > 0
    /\ Len(call.new_bindings) > 0
    /\ ~call.test_only

(***************************************************************************)
(* Properties of the counts of refinements.                                *)
(***************************************************************************)
\* The number of refinements of an open condition: the plans that handling
\* it adds to the list of refinements.
NumOpenCondRefinements(cx, p, open_cond) ==
    Len(handle_open_condition(cx, p, open_cond))

\* C15 as stated: open_cond_refinements returns true if and only if the
\* number of refinements of the open condition does not exceed the limit,
\* whether the open condition is a literal, a disjunction or an inequality,
\* and when it returns true, refinements is that number.
C15_TrueIffWithinLimit ==
    call.op = "open_cond_refinements" =>
        LET n == NumOpenCondRefinements(Cx, current_plan, call.open_cond)
        IN /\ ~call.result.thrown
           /\ call.result.ok <=> n <= call.limit
           /\ call.result.ok => call.result.refinements = n

\* The number of decompositions applicable to an unexpanded composite step.
NumApplicableDecompositions(cx, unexpanded_step) ==
    Len(achieves_composite(cx, unexpanded_step.action))

\* C16 as stated: unexpanded_step_refinements counts the decompositions
\* applicable to the unexpanded composite step and returns true if and only
\* if their number does not exceed the limit.
C16_TrueIffWithinLimit ==
    call.op = "unexpanded_step_refinements" =>
        LET n == NumApplicableDecompositions(Cx, call.unexpanded_step)
        IN /\ call.result.ok <=> n <= call.limit
           /\ call.result.ok => call.result.refinements = n

(***************************************************************************)
(* Properties of the expansion of composite steps.                         *)
(***************************************************************************)
\* The flaw the driver selects in the current plan is an unexpanded
\* composite step for whose action no decomposition is registered.
SelectsStepWithoutDecomposition ==
    IF IsNull(current_plan) THEN FALSE
    ELSE /\ ~complete(current_plan)
         /\ LET flaw == SelectFlaw(current_plan,
                             params.flaw_orders[current_flaw_order + 1])
            IN /\ flaw.kind = "unexpanded"
               /\ Len(achieves_composite(Cx, flaw.flaw.action)) = 0

\* C17: handling an unexpanded composite step whose action has no
\* decomposition yields no successor; the driver adds no plan to the queue,
\* counts a dead end and goes on to take the next plan of the queue of the
\* flaw order, which is the top of that queue, or NULL when it is empty.
C17_NoDecompositionIsDeadEnd ==
    /\ [][pc = "loop" /\ SelectsStepWithoutDecomposition =>
            /\ refinements(Cx, current_plan,
                    SelectFlaw(current_plan,
                        params.flaw_orders[current_flaw_order + 1])) = <<>>
            /\ num_dead_ends' = num_dead_ends + 1
            /\ generated_plans' = generated_plans
            /\ num_generated_plans' = num_generated_plans
            /\ plans'[current_flaw_order + 1] = plans[current_flaw_order + 1]
            /\ current_plan' = current_plan
            /\ pc' = "next"]_vars
    /\ [][pc = "next" /\ SelectsStepWithoutDecomposition =>
            /\ pc' = "inst"
            /\ NextOfQueue]_vars

\* The driver has counted the expansion of a composite step without
\* decomposition as a dead end and is about to take the next plan.
C17_Witness ==
    /\ pc = "next"
    /\ SelectsStepWithoutDecomposition
    /\ num_dead_ends > 0

\* The dummy initial step of the decomposition has no precondition and the
\* precondition of its dummy final step is a conjunction of two atoms.
TwoAtomFinal(cx, d) ==
    LET initial == ActionOf(cx, (CHOOSE st \in Range(d.pseudo_steps) :
                                   st.id = d.dummy_initial_step_id).action)
        final == ActionOf(cx, (CHOOSE st \in Range(d.pseudo_steps) :
                                 st.id = d.dummy_final_step_id).action)
    IN /\ Tautology(initial.condition)
       /\ final.condition.kind = "and"
       /\ Len(final.condition.fs) = 2
       /\ \A i \in 1..2 : /\ final.condition.fs[i].kind = "lit"
                           /\ ~final.condition.fs[i].neg

\* The id that add_decomposition_frame gives the pseudo-step of the
\* decomposition that has the given pseudo-step id.
InstalledId(p, d, pseudo_id) ==
    p.num_steps + (CHOOSE i \in 1..Len(d.pseudo_steps) :
                      d.pseudo_steps[i].id = pseudo_id)

\* The open conditions of the plan that belong to the step.
OpenCondsOf(p, step_id) ==
    SelectSeq(p.open_conds, LAMBDA oc : oc.step_id = step_id)

\* C18: expanding a composite step with a decomposition whose dummy initial
\* step has no precondition and whose dummy final step requires two atoms
\* yields a successor without the UnexpandedCompositeStep flaw of the
\* composite step, with a DecompositionLink of that step's id, with exactly
\* two open conditions on the installed dummy final step, which are the two
\* atoms, and with none on the installed dummy initial step.
C18_ExpansionReplacesFlaw ==
    [][\A u \in Range(current_plan.unexpanded_steps) :
       \A d \in Range(achieves_composite(Cx, u.action)) :
          /\ TwoAtomFinal(Cx, d)
          /\ current_plan' \in
                 Range(add_decomposition_frame(Cx, current_plan, u, d).plans)
          => LET final_id == InstalledId(current_plan, d,
                                         d.dummy_final_step_id)
                 initial_id == InstalledId(current_plan, d,
                                           d.dummy_initial_step_id)
                 final == ActionOf(Cx, (CHOOSE st \in Range(d.pseudo_steps) :
                              st.id = d.dummy_final_step_id).action)
             IN /\ u \notin Range(current_plan'.unexpanded_steps)
                /\ \E i \in 1..Len(current_plan'.decomposition_links) :
                       current_plan'.decomposition_links[i].composite_id
                           = u.step_id
                /\ Step(final_id, final.name) \in Range(current_plan'.steps)
                /\ Len(OpenCondsOf(current_plan, final_id)) = 0
                /\ Len(OpenCondsOf(current_plan', final_id)) = 2
                /\ {oc.condition :
                       oc \in Range(OpenCondsOf(current_plan', final_id))}
                      = Range(final.condition.fs)
                /\ Len(OpenCondsOf(current_plan', initial_id)) = 0]_vars

\* A plan in which a composite step has just been expanded: it has a
\* decomposition link, no unexpanded step, and the two open conditions on
\* the dummy final step of the frame.
C18_Witness ==
    /\ Len(current_plan.decomposition_links) = 1
    /\ Len(current_plan.unexpanded_steps) = 0
    /\ \E i \in 1..Len(current_plan.steps) :
          /\ current_plan.steps[i].action = "<final>"
          /\ Len(OpenCondsOf(current_plan, current_plan.steps[i].id)) = 2
    /\ \E i \in 1..Len(current_plan.steps) :
          /\ current_plan.steps[i].action = "<initial>"
          /\ Len(OpenCondsOf(current_plan, current_plan.steps[i].id)) = 0

(***************************************************************************)
(* Properties of the instantiation of steps.                               *)
(***************************************************************************)
\* step_instantiation, applied to the steps and the bindings of the plan,
\* returns the bindings it is given, so that the driver makes no new plan.
InstantiationAddsNothing(cx, p) ==
    step_instantiation(cx, p.steps, 0, p.bindings) = << p.bindings >>

\* C19: step_instantiation is idempotent: on the steps of a plan with the
\* bindings it returned for that plan it returns those very bindings, both
\* right after the driver has instantiated a plan and for the complete plan
\* the search returns.
C19_InstantiationIdempotent ==
    /\ [][AtInstantiation /\ instantiated' =>
            InstantiationAddsNothing(Cx, current_plan')]_vars
    /\ [](ReturnedComplete /\ instantiated =>
            InstantiationAddsNothing(Cx, current_plan))

\* The search has returned a plan in which it had to bind two parameters or
\* more, and step_instantiation adds nothing to its bindings.
C19_Witness ==
    /\ ReturnedComplete
    /\ instantiated
    /\ ~params.ground_actions
    /\ IF IsNull(current_plan) THEN FALSE
       ELSE /\ Cardinality(ParameterNodes(Cx, current_plan)) > 2
            /\ InstantiationAddsNothing(Cx, current_plan)

(***************************************************************************)
(* Properties of the limit of IDA*.                                        *)
(***************************************************************************)
IdaStar == params.search_algorithm = "IDA_STAR"

\* The refinements of the current plan for the flaw the current flaw order
\* selects.
ChildrenOfCurrentPlan ==
    refinements(Cx, current_plan,
                SelectFlaw(current_plan,
                           params.flaw_orders[current_flaw_order + 1]))

\* The ranks of the children of the current plan that are dropped for
\* exceeding f_limit: the children of finite rank above f_limit that are
\* met while the search limit of the flaw order is not reached.  The
\* children met before them that count against the search limit are those
\* of finite rank within f_limit.
DroppedForFLimit ==
    LET children == ChildrenOfCurrentPlan
        o == current_flaw_order + 1
        within(j) == primary_rank(Cx, children[j]) # Infinity
                     /\ primary_rank(Cx, children[j]) <= f_limit
        before(i) == Cardinality({j \in 1..(i - 1) : within(j)})
    IN {primary_rank(Cx, children[i]) : i \in
          {k \in 1..Len(children) :
              /\ primary_rank(Cx, children[k]) # Infinity
              /\ primary_rank(Cx, children[k]) > f_limit
              /\ generated_plans[o] + before(k) < params.search_limits[o]}}

\* The smallest of a set of ranks, infinite for the empty set.
MinRank(ranks) ==
    IF ranks = {} THEN Infinity
    ELSE CHOOSE r \in ranks : \A q \in ranks : r <= q

\* The current plan has been expanded and its children added.
Expanded == pc = "loop" /\ pc' \in {"rotate", "next", "pass_end"}

\* A pass begins: the search restarts from the initial plan.
Restarts == pc \in {"pass_end", "loop"} /\ pc' = "loop"

\* C20: in IDA_STAR mode no plan whose primary rank exceeds f_limit is
\* pushed onto a queue, no queue holds such a plan, and next_f_limit is the
\* minimum of the primary ranks of the children dropped in the pass for
\* exceeding f_limit: it is infinite when a pass begins, every expansion
\* lowers it to the smallest rank it drops for exceeding f_limit if that is
\* smaller, and nothing else changes it until the pass ends.
C20_FLimitBoundsQueue ==
    /\ [][IdaStar /\ Expanded =>
            /\ \A o \in 1..Len(plans) : \A q \in plans'[o] \ plans[o] :
                   primary_rank(Cx, q) <= f_limit
            /\ next_f_limit' = Min(next_f_limit, MinRank(DroppedForFLimit))
          ]_vars
    /\ [][IdaStar /\ ~Expanded =>
            IF Restarts THEN next_f_limit' = Infinity
            ELSE next_f_limit' = next_f_limit]_vars
    /\ [](IdaStar => \A o \in 1..Len(plans) : \A q \in plans[o] :
                        primary_rank(Cx, q) <= f_limit)
    /\ IdaStar => next_f_limit = Infinity

\* A pass of IDA* ends after it has pushed children within f_limit and has
\* dropped children for exceeding it: next_f_limit is finite.
C20_Witness ==
    /\ IdaStar
    /\ pc = "pass_end" \/ (pc = "loop" /\ IsNull(current_plan))
    /\ next_f_limit # Infinity
    /\ next_f_limit > f_limit
    /\ generated_plans[current_flaw_order + 1] > 1

(***************************************************************************)
(* Properties of the restarts of IDA* and of the retirement of flaw        *)
(* orders.                                                                 *)
(***************************************************************************)
\* The flaw order (1-based) has generated as many plans as its search limit
\* allows.
LimitReached(o) == generated_plans[o] >= params.search_limits[o]

\* C21: every restart of IDA* happens with a finite next_f_limit above the
\* f_limit of the pass that ends, begins from the initial plan with that
\* next_f_limit as f_limit and with an empty queue for the current flaw
\* order, and the plan it expands next, the initial plan, is not expanded
\* under a flaw order whose search limit is reached.
C21_RestartsFromEmptyFrontier ==
    [][IdaStar /\ Restarts =>
          /\ next_f_limit # Infinity
          /\ next_f_limit > f_limit
          /\ f_limit' = next_f_limit
          /\ current_plan' = initial_plan
          /\ plans[current_flaw_order + 1] = {}
          /\ ~LimitReached(current_flaw_order + 1)]_vars

\* The expansion that is under way leaves the current flaw order with as
\* many generated plans as its search limit allows: the driver retires the
\* order.
Retires ==
    /\ Expanded
    /\ generated_plans'[current_flaw_order + 1]
           >= params.search_limits[current_flaw_order + 1]

\* C22: a flaw order whose count of generated plans has reached its search
\* limit is retired once: the expansion that retires it registers its queue
\* as dead and takes one from the number of flaw orders left, which no
\* other step changes; no plan is expanded under a flaw order whose queue
\* is registered as dead, and no plan is pushed onto the queue of a flaw
\* order that has reached its limit.
C22_RetiredOnce ==
    /\ [][Retires =>
            /\ flaw_orders_left' = flaw_orders_left - 1
            /\ dead_queues' # <<>>
            /\ dead_queues'[Len(dead_queues')] = current_flaw_order]_vars
    /\ [][~Retires => flaw_orders_left' = flaw_orders_left]_vars
    /\ [][Expanded => current_flaw_order \notin Range(dead_queues)]_vars
    /\ [][\A o \in 1..Len(plans) :
            LimitReached(o) => plans'[o] \subseteq plans[o]]_vars

\* The flaw orders (1-based) that have generated fewer plans than their
\* search limit allows.
OrdersBelowLimit == {o \in 1..Len(generated_plans) : ~LimitReached(o)}

\* C23: flaw_orders_left is the number of flaw orders whose count of
\* generated plans is below their search limit, in every state in which the
\* driver has tested the search limit of the plans it has generated; it
\* never wraps below zero, and the rotation loop is entered only when some
\* flaw order is below its limit.
C23_FlawOrdersLeftCountsLiveOrders ==
    /\ pc \in {"rotate", "next", "pass_end"} =>
           flaw_orders_left = Cardinality(OrdersBelowLimit)
    /\ flaw_orders_left <= Len(params.flaw_orders)
    /\ pc = "rotate" => OrdersBelowLimit # {}

\* C24: no flaw order generates more plans than its search limit allows.
C24_GeneratedWithinLimit ==
    \A i \in 1..Len(generated_plans) :
        generated_plans[i] <= params.search_limits[i]

(***************************************************************************)
(* Properties of the cleanup of dead queues.                               *)
(***************************************************************************)
\* The driver is about to run an iteration of its while loop, which begins
\* with the cleanup of dead queues.
AtCleanup ==
    pc = "loop" /\ ~IsNull(current_plan) /\ ~NonNullComplete(current_plan)

\* The number of plans the queues ps hold.
RECURSIVE NumQueued(_)
NumQueued(ps) ==
    IF Len(ps) = 0 THEN 0 ELSE Cardinality(Head(ps)) + NumQueued(Tail(ps))

\* C25: the cleanup of dead queues frees at most 4 plans in an iteration,
\* takes them from the queues registered as dead, and every plan it frees
\* is the top of a queue that is not empty: it never takes the top of an
\* empty queue.
C25_CleanupFreesFromNonEmptyQueues ==
    AtCleanup =>
        \A c \in CleanupDeadQueues(Cx, plans, dead_queues, DeadQueueQuota,
                                   FALSE) :
            /\ ~c.ub
            /\ NumQueued(plans) - NumQueued(c.plans) <= 4
            /\ \A o \in 1..Len(plans) :
                  /\ c.plans[o] \subseteq plans[o]
                  /\ c.plans[o] # plans[o] => (o - 1) \in Range(dead_queues)

(***************************************************************************)
(* Properties of the serial numbers of plans.                              *)
(***************************************************************************)
\* The plans a step pushes onto the queues.
Pushed == UNION {plans'[o] \ plans[o] : o \in 1..Len(plans)}

\* The plans the queues hold.
Queued == UNION {plans[o] : o \in 1..Len(plans)}

\* C26: every plan pushed onto a queue carries a serial number that differs
\* from that of the initial plan and of every plan pushed before it, and
\* serial numbers increase in the order of the pushes: the plans a step
\* pushes are numbered from num_generated_plans on, one number each, all
\* below the num_generated_plans the step leaves, which never decreases;
\* the plans pushed earlier, queued or current, are numbered below
\* num_generated_plans, and the initial plan is numbered 0.
C26_SerialNumbersIncrease ==
    /\ [][/\ \A q \in Pushed :
                /\ num_generated_plans <= q.id
                /\ q.id < num_generated_plans'
                /\ q.id > initial_plan.id
          /\ \A q1, q2 \in Pushed : q1.id = q2.id => q1 = q2
          /\ Cardinality(Pushed) <= num_generated_plans'
                                       - num_generated_plans
          /\ num_generated_plans' >= num_generated_plans]_vars
    /\ [](\A q \in Queued : 0 < q.id /\ q.id < num_generated_plans)
    /\ [](~IsNull(current_plan) => current_plan.id < num_generated_plans)
    /\ [](~IsNull(initial_plan) => initial_plan.id = 0)

\* The second flaw order has pushed two plans or more after the first flaw
\* order generated its plans: they are numbered above the plans either
\* order has generated on its own.
C26_Witness ==
    /\ Len(plans) = 2
    /\ Cardinality(plans[2]) >= 2
    /\ \A q \in plans[2] :
          q.id > generated_plans[1] /\ q.id > generated_plans[2]

(***************************************************************************)
(* Properties of the handling of unsafe links.                             *)
(***************************************************************************)
\* The threat is real: the orderings of the plan let the effect fall
\* between the producer and the consumer of the link, and the effect
\* affects the condition of the link under the bindings of the plan.
RealThreat(p, u) ==
    /\ PossiblyNotAfter(p.orderings, u.link.from_id, u.link.effect_time,
                        u.step_id, u.effect.when)
    /\ PossiblyNotBefore(p.orderings, u.link.to_id, u.link.condition_time,
                         u.step_id, u.effect.when)
    /\ Len(Affects(p.bindings, u.effect.literal, u.step_id,
                   u.link.condition, u.link.to_id)) > 0

\* The successor q of p has the unsafe u removed and the steps and links
\* of p.
UnsafeRemoved(p, u, q) ==
    /\ q.unsafes = ChainRemove(p.unsafes, u)
    /\ q.num_unsafes = p.num_unsafes - 1
    /\ q.steps = p.steps /\ q.num_steps = p.num_steps
    /\ q.links = p.links /\ q.num_links = p.num_links

\* The successors of p for u that keep the orderings of p (separation),
\* that put the consumer of the link before the threatening step
\* (promotion), and that put the threatening step before the producer
\* (demotion).
Separations(p, u, successors) ==
    {k \in 1..Len(successors) : successors[k].orderings = p.orderings}

Promotions(p, u, successors) ==
    {k \in 1..Len(successors) :
        /\ successors[k].orderings # p.orderings
        /\ successors[k].bindings = p.bindings
        /\ Before(successors[k].orderings, u.link.to_id, u.step_id)}

Demotions(p, u, successors) ==
    {k \in 1..Len(successors) :
        /\ successors[k].orderings # p.orderings
        /\ successors[k].bindings = p.bindings
        /\ Before(successors[k].orderings, u.step_id, u.link.from_id)}

\* C27: for every unsafe of a plan that is a real threat, handle_unsafe
\* gives at most three successors: at most one by separation, one by
\* promotion exactly when the consumer of the link is possibly before the
\* threatening step, and one by demotion exactly when the threatening step
\* is possibly before the producer; every successor has the unsafe removed,
\* one unsafe less, and the steps and links of the plan.
C27_RealThreatRepairs ==
    \A i \in 1..Len(current_plan.unsafes) :
        LET p == current_plan
            u == p.unsafes[i]
            successors == handle_unsafe(Cx, p, u)
            s == Separations(p, u, successors)
            pr == Promotions(p, u, successors)
            d == Demotions(p, u, successors)
        IN RealThreat(p, u) =>
              /\ Len(successors) <= 3
              /\ s \cup pr \cup d = 1..Len(successors)
              /\ pr \cap d = {}
              /\ Cardinality(s) <= 1
              /\ Cardinality(pr) =
                    (IF PossiblyBefore(p.orderings, u.link.to_id,
                                       u.link.condition_time,
                                       u.step_id, u.effect.when)
                     THEN 1 ELSE 0)
              /\ Cardinality(d) =
                    (IF PossiblyBefore(p.orderings, u.step_id,
                                       u.effect.when, u.link.from_id,
                                       u.link.effect_time)
                     THEN 1 ELSE 0)
              /\ \A k \in 1..Len(successors) :
                    UnsafeRemoved(p, u, successors[k])

\* A plan has a real threat that handle_unsafe repairs in three ways.
C27_Witness ==
    \E i \in 1..Len(current_plan.unsafes) :
        /\ RealThreat(current_plan, current_plan.unsafes[i])
        /\ Len(handle_unsafe(Cx, current_plan, current_plan.unsafes[i])) = 3

\* The chain is the chain of p without one entry equal to x.
OneEntryRemoved(chain, of, x) ==
    \E j \in 1..Len(of) :
        /\ of[j] = x
        /\ chain = SubSeq(of, 1, j - 1) \o SubSeq(of, j + 1, Len(of))

\* C28: for every unsafe of a plan that is no longer a threat,
\* handle_unsafe gives exactly one successor, which is the plan with that
\* entry removed from its unsafes and one unsafe less, and with everything
\* else unchanged.
C28_BogusFlawDischarged ==
    \A i \in 1..Len(current_plan.unsafes) :
        LET p == current_plan
            u == p.unsafes[i]
            successors == handle_unsafe(Cx, p, u)
        IN ~RealThreat(p, u) =>
              /\ Len(successors) = 1
              /\ OneEntryRemoved(successors[1].unsafes, p.unsafes, u)
              /\ successors[1].num_unsafes = p.num_unsafes - 1
              /\ DOMAIN successors[1] = DOMAIN p
              /\ \A f \in DOMAIN p \ {"unsafes", "num_unsafes"} :
                    successors[1][f] = p[f]

\* A plan has an unsafe that is no longer a threat, next to steps, links,
\* open conditions and orderings that its successor has to keep.
C28_Witness ==
    \E i \in 1..Len(current_plan.unsafes) :
        /\ ~RealThreat(current_plan, current_plan.unsafes[i])
        /\ Len(handle_unsafe(Cx, current_plan, current_plan.unsafes[i])) = 1
        /\ current_plan.num_links > 0
        /\ current_plan.orderings # EmptyOrderings

(***************************************************************************)
(* Properties of the refinements of an open condition.                     *)
(***************************************************************************)
\* The successors add_step and reuse_step give for the open condition of
\* the plan.
AddStepSuccessors(cx, p, open_cond) ==
    add_step(cx, p, open_cond.condition, open_cond,
             literal_achievers(cx, open_cond.condition))

ReuseStepSuccessors(cx, p, open_cond) ==
    reuse_step(cx, p, open_cond.condition, open_cond,
               literal_achievers(cx, open_cond.condition))

\* The plan q has the links of p and, at the head of the chain, one link
\* from the step to the consumer of the open condition.
OneLinkAdded(p, q, from_id, open_cond) ==
    /\ q.num_links = p.num_links + 1
    /\ Len(q.links) = Len(p.links) + 1
    /\ Tail(q.links) = p.links
    /\ q.links[1].from_id = from_id
    /\ q.links[1].to_id = open_cond.step_id
    /\ q.links[1].condition = open_cond.condition

\* C29: every successor add_step gives for a literal open condition of a
\* plan has the steps of the plan and one more, numbered num_steps + 1 and
\* not an instance of a dummy action, the links of the plan and one more,
\* from the new step to the consumer of the open condition, and does not
\* hold the open condition; every successor reuse_step gives has the steps
\* of the plan.
C29_AddStepAddsOneStepAndLink ==
    \A i \in 1..Len(current_plan.open_conds) :
        LET p == current_plan
            open_cond == p.open_conds[i]
        IN IsLiteralCond(open_cond) =>
              /\ \A q \in Range(AddStepSuccessors(Cx, p, open_cond)) :
                    /\ q.num_steps = p.num_steps + 1
                    /\ Len(q.steps) = Len(p.steps) + 1
                    /\ Tail(q.steps) = p.steps
                    /\ q.steps[1].id = p.num_steps + 1
                    /\ ~IsDummyName(q.steps[1].action)
                    /\ OneLinkAdded(p, q, p.num_steps + 1, open_cond)
                    /\ open_cond \notin Range(q.open_conds)
              /\ \A q \in Range(ReuseStepSuccessors(Cx, p, open_cond)) :
                    /\ q.steps = p.steps
                    /\ q.num_steps = p.num_steps

\* An open condition of a plan has a dummy action among its achievers, and
\* both add_step and reuse_step give a successor for it.
C29_Witness ==
    \E i \in 1..Len(current_plan.open_conds) :
        LET open_cond == current_plan.open_conds[i]
        IN /\ IsLiteralCond(open_cond)
           /\ \E a \in Range(literal_achievers(Cx, open_cond.condition)) :
                 IsDummyName(a.action)
           /\ Len(AddStepSuccessors(Cx, current_plan, open_cond)) > 0
           /\ Len(ReuseStepSuccessors(Cx, current_plan, open_cond)) > 0

\* The unsafes that the effects of step s raise against link l under the
\* orderings and bindings of plan q.
ThreatsOf(cx, q, s, l) ==
    {Unsafe(l, s.id, e) :
        e \in Range(ThreateningEffects(cx, l, s, q.orderings, q.bindings))}

\* The successor q of p, made by a link from step new_step, holds an unsafe
\* for every effect of a step that threatens the new link.
NewLinkThreatsFound(cx, q) ==
    \A s \in Range(q.steps) :
        ThreatsOf(cx, q, s, q.links[1]) \subseteq Range(q.unsafes)

\* The successor q of p holds an unsafe for every link of p that its new
\* step threatens.
NewStepThreatsFound(cx, p, q) ==
    \A l \in Range(p.links) :
        ThreatsOf(cx, q, q.steps[1], l) \subseteq Range(q.unsafes)

\* The successor q of p holds a mutex threat for every mutex threat its new
\* step raises against the steps of p.
NewStepMutexThreatsFound(cx, p, q) ==
    Range(mutex_threats(cx, <<>>, q.steps[1], p.steps, q.orderings,
                        q.bindings))
        \subseteq Range(q.mutex_threats)

\* C30: a successor that make_link builds for a literal open condition
\* holds an unsafe for every step effect that threatens the new link and,
\* when the producer of the link is a new step, an unsafe for every link
\* of the plan that the step threatens and a mutex threat for every mutex
\* threat the step raises against the steps of the plan.
C30_NewThreatsFound ==
    \A i \in 1..Len(current_plan.open_conds) :
        LET p == current_plan
            open_cond == p.open_conds[i]
        IN IsLiteralCond(open_cond) =>
              /\ \A q \in Range(AddStepSuccessors(Cx, p, open_cond)) :
                    /\ NewLinkThreatsFound(Cx, q)
                    /\ NewStepThreatsFound(Cx, p, q)
                    /\ NewStepMutexThreatsFound(Cx, p, q)
              /\ \A q \in Range(ReuseStepSuccessors(Cx, p, open_cond)) :
                    NewLinkThreatsFound(Cx, q)

(***************************************************************************)
(* Properties of the handling of disjunctions and inequalities.            *)
(***************************************************************************)
\* The open conditions and bindings that admitting the formula on its own
\* gives for the step.
AdmittedAlone(cx, f, step_id) == add_goal(cx, <<>>, 0, <<>>, f, step_id, FALSE)

\* The disjuncts of the open condition of plan p that are admitted and
\* whose bindings are consistent with those of p.
ConsistentDisjuncts(cx, p, open_cond) ==
    SelectSeq(open_cond.condition.fs, LAMBDA d :
        /\ AdmittedAlone(cx, d, open_cond.step_id).ok
        /\ Len(BindingsAdd(p.bindings,
                 AdmittedAlone(cx, d, open_cond.step_id).new_bindings)) > 0)

\* The plan q has the steps, links, orderings and unsafes of p.
SameStructure(p, q) ==
    /\ q.steps = p.steps /\ q.num_steps = p.num_steps
    /\ q.links = p.links /\ q.num_links = p.num_links
    /\ q.orderings = p.orderings
    /\ q.unsafes = p.unsafes /\ q.num_unsafes = p.num_unsafes

\* C31: for a disjunctive open condition of a plan, handle_disjunction
\* gives one successor for every disjunct that is admitted with bindings
\* consistent with those of the plan, in the order of the disjuncts, and
\* none for the others; each successor holds the open conditions of its
\* disjunct in front of those of the plan without the disjunction, the
\* bindings of the plan with those of its disjunct, and the steps, links,
\* orderings and unsafes of the plan.
C31_OneSuccessorPerDisjunct ==
    \A i \in 1..Len(current_plan.open_conds) :
        LET p == current_plan
            open_cond == p.open_conds[i]
            live == ConsistentDisjuncts(Cx, p, open_cond)
            successors == handle_disjunction(Cx, p, open_cond.condition,
                                             open_cond)
        IN open_cond.condition.kind = "or" =>
              /\ Len(successors) = Len(live)
              /\ \A k \in 1..Len(live) :
                    LET q == successors[k]
                        g == AdmittedAlone(Cx, live[k], open_cond.step_id)
                    IN /\ q.open_conds =
                             g.open_conds \o ChainRemove(p.open_conds,
                                                         open_cond)
                       /\ q.num_open_conds =
                             p.num_open_conds - 1 + g.num_open_conds
                       /\ open_cond \notin Range(q.open_conds)
                       /\ <<q.bindings>> =
                             BindingsAdd(p.bindings, g.new_bindings)
                       /\ SameStructure(p, q)

\* A plan has a disjunctive open condition of which one disjunct gives a
\* successor and another, whose bindings contradict those of the plan,
\* gives none.
C31_Witness ==
    \E i \in 1..Len(current_plan.open_conds) :
        LET open_cond == current_plan.open_conds[i]
        IN /\ open_cond.condition.kind = "or"
           /\ Len(handle_disjunction(Cx, current_plan, open_cond.condition,
                                     open_cond)) = 1
           /\ Len(open_cond.condition.fs) = 2
           /\ current_plan.num_links > 0

\* The plan with the open condition in front of its open conditions.
WithOpenCondition(p, open_cond) ==
    [p EXCEPT !.open_conds = <<open_cond>> \o p.open_conds,
              !.num_open_conds = p.num_open_conds + 1]

\* handle_inequality called on its own: on a plan of the space of plans
\* that holds an inequality between the parameters of two of its steps as
\* an open condition.
BranchOnInequality ==
    /\ \E open_cond \in InequalityOpenConds(Cx, current_plan) :
         \E plan \in {WithOpenCondition(current_plan, open_cond)} :
           call' = [op |-> "handle_inequality",
                    plan |-> plan, open_cond |-> open_cond,
                    result |-> handle_inequality(Cx, plan,
                                   open_cond.condition, open_cond, FALSE)]
    /\ UNCHANGED <<params, pc, initial_plan, current_plan, plans,
                   generated_plans, num_generated_plans, dead_queues,
                   current_flaw_order, flaw_orders_left, switch_doublings,
                   f_limit, next_f_limit, instantiated, num_dead_ends>>

InequalityNext ==
    \/ PlanNext
    \/ BranchOnInequality

SpecInequality == PlanInit /\ [][InequalityNext]_vars

\* The two sides of the inequality of an open condition, each a variable
\* with the step it belongs to.
InequalitySides(open_cond) ==
    LET neq == open_cond.condition
    IN << <<neq.var, IF neq.var_id # 0 THEN neq.var_id
                     ELSE open_cond.step_id>>,
          <<neq.term, IF neq.term_id # 0 THEN neq.term_id
                      ELSE open_cond.step_id>> >>

\* The bindings that make the side equal to the object and the other side
\* different from it.
BranchBindings(side, other, o) ==
    << Binding(side[1], side[2], o, 0, TRUE),
       Binding(other[1], other[2], o, 0, FALSE) >>

\* The successors are those of branching on the side: for every object of
\* the domain of the side with which the plan's bindings stay consistent
\* one successor, with these bindings and without the open condition, and
\* no other successor.
BranchesOn(cx, p, open_cond, returned, side, other) ==
    LET domain == Domain(cx, p.bindings, side[1], side[2])
        consistent == {o \in domain :
            Len(BindingsAdd(p.bindings, BranchBindings(side, other, o))) > 0}
    IN /\ returned.count = Cardinality(consistent)
       /\ Len(returned.plans) = Cardinality(consistent)
       /\ \A o \in consistent :
             \E k \in 1..Len(returned.plans) :
                returned.plans[k].bindings =
                    p.bindings \cup Range(BranchBindings(side, other, o))
       /\ \A k \in 1..Len(returned.plans) :
             LET q == returned.plans[k]
             IN /\ open_cond \notin Range(q.open_conds)
                /\ q.open_conds = ChainRemove(p.open_conds, open_cond)
                /\ q.num_open_conds = p.num_open_conds - 1
                /\ SameStructure(p, q)

\* C32: handle_inequality branches on a side of the inequality whose
\* domain is not larger than that of the other side: it gives exactly one
\* successor for every object of that domain whose two bindings (the side
\* equal to the object, the other side different from it) are consistent
\* with those of the plan, and no other successor; no successor holds the
\* inequality open condition.
C32_BranchesOnSmallerDomain ==
    call.op = "handle_inequality" =>
        LET p == call.plan
            sides == InequalitySides(call.open_cond)
            size(s) == Cardinality(Domain(Cx, p.bindings, s[1], s[2]))
        IN \E i \in 1..2 :
              /\ size(sides[i]) <= size(sides[3 - i])
              /\ BranchesOn(Cx, p, call.open_cond, call.result,
                            sides[i], sides[3 - i])

\* handle_inequality has been called for an inequality whose sides have
\* domains of different sizes, and has given a successor.
C32_Witness ==
    /\ call.op = "handle_inequality"
    /\ LET p == call.plan
           sides == InequalitySides(call.open_cond)
           size(s) == Cardinality(Domain(Cx, p.bindings, s[1], s[2]))
       IN /\ size(sides[1]) # size(sides[2])
          /\ call.result.count >= 1

(***************************************************************************)
(* Properties of the links made under the closed-world assumption.         *)
(***************************************************************************)
\* The unifiers of the atom of a step with the atoms of the initial
\* conditions that unify with it.
InitialUnifiers(cx, p, atom, step_id) ==
    SeqConcatAll([i \in 1..Len(InitAction(cx).effects) |->
        UnifyAtoms(p.bindings, InitAction(cx).effects[i].literal, 0,
                   atom, step_id)])

\* The bindings that keep the atom apart from the initial conditions it
\* unifies with.
SeparatingBindings(cx, p, atom, step_id) ==
    LET mgus == InitialUnifiers(cx, p, atom, step_id)
    IN SeqConcatAll([i \in 1..Len(mgus) |->
          [j \in 1..Len(mgus[i]) |->
              Binding(mgus[i][j].var, mgus[i][j].var_id,
                      mgus[i][j].term, mgus[i][j].term_id, FALSE)]])

\* No link can be made for the negated atom: an initial condition is the
\* atom, or the atom cannot be kept apart from the initial conditions.
CannotBeSeparated(cx, p, atom, step_id) ==
    \/ <<>> \in Range(InitialUnifiers(cx, p, atom, step_id))
    \/ Len(BindingsAdd(p.bindings,
                       SeparatingBindings(cx, p, atom, step_id))) = 0

\* The open conditions of the plan that are negated literals.
NegatedOpenConds(p) ==
    {open_cond \in Range(p.open_conds) :
        IsLiteralCond(open_cond) /\ open_cond.condition.neg}

\* C33: for a negated-literal open condition of a plan new_cw_link gives
\* no successor when an initial condition is the atom or the separating
\* inequalities are inconsistent with the bindings of the plan, and
\* otherwise exactly one successor: the plan without the open condition,
\* with one more link, from step 0 at AT_END to the open condition, with
\* the separating bindings, and with an unsafe for every step effect that
\* threatens the new link.
C33_ClosedWorldLink ==
    \A open_cond \in NegatedOpenConds(current_plan) :
        LET p == current_plan
            atom == [open_cond.condition EXCEPT !.neg = FALSE]
            returned == new_cw_link(Cx, p, InitAction(Cx).effects, atom,
                                    open_cond, FALSE)
        IN /\ Len(returned.plans) = returned.count
           /\ returned.count =
                 (IF CannotBeSeparated(Cx, p, atom, open_cond.step_id)
                  THEN 0 ELSE 1)
           /\ \A k \in 1..Len(returned.plans) :
                 LET q == returned.plans[k]
                 IN /\ OneLinkAdded(p, q, 0, open_cond)
                    /\ q.links[1].effect_time = "AT_END"
                    /\ q.links[1].condition_time = open_cond.when
                    /\ open_cond \notin Range(q.open_conds)
                    /\ q.open_conds = ChainRemove(p.open_conds, open_cond)
                    /\ q.num_open_conds = p.num_open_conds - 1
                    /\ q.steps = p.steps /\ q.orderings = p.orderings
                    /\ q.bindings = p.bindings \cup
                          Range(SeparatingBindings(Cx, p, atom,
                                                   open_cond.step_id))
                    /\ NewLinkThreatsFound(Cx, q)
                    /\ Range(p.unsafes) \subseteq Range(q.unsafes)

\* A plan has a negated-literal open condition for which new_cw_link gives
\* a successor with separating bindings and a threat to the new link.
C33_Witness ==
    \E open_cond \in NegatedOpenConds(current_plan) :
        LET returned == new_cw_link(Cx, current_plan, InitAction(Cx).effects,
                            [open_cond.condition EXCEPT !.neg = FALSE],
                            open_cond, FALSE)
        IN /\ returned.count = 1
           /\ Len(returned.plans[1].unsafes) > Len(current_plan.unsafes)
           /\ returned.plans[1].bindings # current_plan.bindings

(***************************************************************************)
(* Properties of the expansion of composite steps.                         *)
(***************************************************************************)
\* The ids of steps that a decomposition frame refers to.
FrameStepIds(frame) ==
    {frame.steps[i].id : i \in 1..Len(frame.steps)}
    \cup {frame.link_list[i].from_id : i \in 1..Len(frame.link_list)}
    \cup {frame.link_list[i].to_id : i \in 1..Len(frame.link_list)}
    \cup {frame.ordering_list[i].before_id :
             i \in 1..Len(frame.ordering_list)}
    \cup {frame.ordering_list[i].after_id :
             i \in 1..Len(frame.ordering_list)}
    \cup {frame.dummy_initial_step_id, frame.dummy_final_step_id}

\* The ids of the steps that the successor q of plan p has and p has not.
FreshStepIds(p, q) == (p.num_steps + 1)..q.num_steps

\* The successor q of p has as many more steps as the decomposition has
\* pseudo-steps.
StepsInstalled(p, q, d) ==
    /\ q.num_steps = p.num_steps + Len(d.pseudo_steps)
    /\ Len(q.steps) = Len(p.steps) + Len(d.pseudo_steps)
    /\ {q.steps[i].id : i \in 1..Len(d.pseudo_steps)} = FreshStepIds(p, q)

\* The successor q of p has one more decomposition link, of the composite
\* step, and not the flaw of the composite step.
FlawReplacedByLink(p, q, u) ==
    /\ q.num_decomposition_links = p.num_decomposition_links + 1
    /\ Tail(q.decomposition_links) = p.decomposition_links
    /\ q.decomposition_links[1].composite_id = u.step_id
    /\ u \notin Range(q.unexpanded_steps)

\* The links installed in the successor q of p run between the new steps.
LinksInstalledOnFreshIds(p, q, d) ==
    /\ q.num_links = p.num_links + Len(d.link_list)
    /\ \A i \in 1..Len(d.link_list) :
          /\ q.links[i].from_id \in FreshStepIds(p, q)
          /\ q.links[i].to_id \in FreshStepIds(p, q)

\* The frame recorded in the successor q of p, in the chain of frames and
\* in the decomposition link, refers to the new steps.
FrameRecordedOnFreshIds(p, q) ==
    /\ q.num_decomposition_frames = p.num_decomposition_frames + 1
    /\ FrameStepIds(q.decomposition_frames[1]) \subseteq FreshStepIds(p, q)
    /\ FrameStepIds(q.decomposition_links[1].frame)
          \subseteq FreshStepIds(p, q)

\* C34: for every decomposition applicable to an unexpanded composite step
\* of a plan, add_decomposition_frame gives at most one successor, and in
\* it num_steps has grown by the number of pseudo-steps, a decomposition
\* link with the id of the composite step has been added, the flaw of the
\* composite step is gone, and the installed links and the recorded frame
\* refer to the ids of the new steps of the plan.
C34_ExpansionInstallsFrame ==
    \A u \in Range(current_plan.unexpanded_steps) :
    \A d \in Range(achieves_composite(Cx, u.action)) :
        LET p == current_plan
            successors == add_decomposition_frame(Cx, p, u, d).plans
        IN /\ Len(successors) <= 1
           /\ \A k \in 1..Len(successors) :
                 /\ StepsInstalled(p, successors[k], d)
                 /\ FlawReplacedByLink(p, successors[k], u)
                 /\ LinksInstalledOnFreshIds(p, successors[k], d)
                 /\ FrameRecordedOnFreshIds(p, successors[k])

\* The successor q of plan p by the decomposition d holds an unsafe for
\* every effect of a step that threatens a link installed with the frame.
InstalledLinkThreatsFound(cx, q, d) ==
    \A i \in 1..Len(d.link_list) : \A s \in Range(q.steps) :
        ThreatsOf(cx, q, s, q.links[i]) \subseteq Range(q.unsafes)

\* The successor q of plan p by the decomposition d holds an unsafe for
\* every link of p that a step installed with the frame threatens.
InstalledStepThreatsFound(cx, p, q, d) ==
    \A i \in 1..Len(d.pseudo_steps) : \A l \in Range(p.links) :
        ThreatsOf(cx, q, q.steps[i], l) \subseteq Range(q.unsafes)

\* C35: the successor of the expansion of a composite step holds an Unsafe
\* flaw for every step effect that threatens a link installed with the
\* frame and for every link of the plan that a step installed with the
\* frame threatens.
C35_ExpansionThreatsFound ==
    \A u \in Range(current_plan.unexpanded_steps) :
    \A d \in Range(achieves_composite(Cx, u.action)) :
    \A q \in Range(add_decomposition_frame(Cx, current_plan, u, d).plans) :
        /\ InstalledLinkThreatsFound(Cx, q, d)
        /\ InstalledStepThreatsFound(Cx, current_plan, q, d)

\* C36: when the installation of a decomposition fails, no successor is
\* added for it and the orderings of the plan being refined are not
\* destroyed, so that the other decompositions are expanded against the
\* plan as it was.
C36_FailedExpansionLeavesPlanIntact ==
    \A u \in Range(current_plan.unexpanded_steps) :
    \A d \in Range(achieves_composite(Cx, u.action)) :
        LET returned == add_decomposition_frame(Cx, current_plan, u, d)
        IN Len(returned.plans) = 0 => ~returned.deleted_orderings

\* C37: an expansion that gives a successor, and so has refined the
\* orderings as often as the frame asks for, does not destroy the
\* orderings of the plan being refined: only orderings the expansion made
\* itself are released.
C37_RefinementKeepsOrderingsOfPlan ==
    \A u \in Range(current_plan.unexpanded_steps) :
    \A d \in Range(achieves_composite(Cx, u.action)) :
        LET returned == add_decomposition_frame(Cx, current_plan, u, d)
        IN Len(returned.plans) = 1 => ~returned.deleted_orderings

(***************************************************************************)
(* Properties of the handling of mutex threats.                            *)
(***************************************************************************)
\* The mutex threats between the steps of the plan: the pairs of effects
\* of two possibly concurrent steps whose atoms unify.
ThreatsBetweenSteps(cx, p) ==
    LET effects == UNION {Range(ActionOf(cx, s.action).effects) :
                             s \in Range(p.steps)}
        pairs == {x \in Range(p.steps) \X effects \X Range(p.steps)
                            \X effects :
                    /\ x[2] \in Range(ActionOf(cx, x[1].action).effects)
                    /\ x[4] \in Range(ActionOf(cx, x[3].action).effects)
                    /\ PossiblyConcurrent(p.orderings, x[1].id, x[3].id)
                    /\ Len(UnifyAtoms(p.bindings, x[2].literal, x[1].id,
                                      x[4].literal, x[3].id)) > 0}
    IN {MutexThreat(x[1].id, x[2], x[3].id, x[4]) : x \in pairs}

\* The chain of mutex threats of the plan is still the place holder.
NotSwept(p) == p.mutex_threats = << MutexPlaceHolder >>

\* The mutex threat, not the place holder, is one of two effects that can
\* still meet and still unify in the plan.
GenuineMutexThreat(p, mt) ==
    /\ mt # MutexPlaceHolder
    /\ PossiblyNotBefore(p.orderings, mt.step_id1, mt.effect1.when,
                         mt.step_id2, mt.effect2.when)
    /\ PossiblyNotAfter(p.orderings, mt.step_id1, mt.effect1.when,
                        mt.step_id2, mt.effect2.when)
    /\ Len(UnifyAtoms(p.bindings, mt.effect1.literal, mt.step_id1,
                      mt.effect2.literal, mt.step_id2)) > 0

\* Handling the place holder of the plan gives one successor, the plan
\* with the threats between its steps as its chain of mutex threats.
SweepReplacesPlaceHolder(cx, p) ==
    LET successors == handle_mutex_threat(cx, p, p.mutex_threats[1])
    IN /\ Len(successors) = 1
       /\ [successors[1] EXCEPT !.mutex_threats = p.mutex_threats] = p
       /\ Range(successors[1].mutex_threats) = ThreatsBetweenSteps(cx, p)
       /\ \A i \in 1..Len(successors[1].mutex_threats) :
             successors[1].mutex_threats[i].step_id1 # 0

\* Handling the genuine mutex threat of the plan gives the successors of
\* separate, promote and demote, and none of them holds the threat.
GenuineThreatRepaired(cx, p, mt) ==
    LET successors == handle_mutex_threat(cx, p, mt)
        unifier == UnifyAtoms(p.bindings, mt.effect1.literal, mt.step_id1,
                              mt.effect2.literal, mt.step_id2)
    IN /\ successors = separate_mutex(cx, p, mt, unifier[1])
                          \o promote_mutex(p, mt) \o demote_mutex(p, mt)
       /\ \A k \in 1..Len(successors) :
             /\ mt \notin Range(successors[k].mutex_threats)
             /\ OneEntryRemoved(successors[k].mutex_threats,
                                p.mutex_threats, mt)

RECURSIVE ReachedGoals(_, _)
ReachedGoals(cx, f) ==
    CASE f.kind = "lit" -> << [literal |-> f, when |-> "AT_START"] >>
      [] f.kind = "timed" -> << [literal |-> f.literal, when |-> f.when] >>
      [] f.kind = "or" -> << [disjunction |-> f] >>
      [] f.kind = "and" ->
             SeqConcatAll([i \in 1..Len(f.fs) |-> ReachedGoals(cx, f.fs[i])])
      [] f.kind = "exists" -> ReachedGoals(cx, f.body)
      [] f.kind = "forall" -> ReachedGoals(cx, universal_base(cx, f))
      [] OTHER -> <<>>

ReachedLiterals(cx, f) ==
    SelectSeq(ReachedGoals(cx, f), LAMBDA g : "literal" \in DOMAIN g)

\* How often x occurs in the sequence.
Occurrences(seq, x) == Cardinality({i \in 1..Len(seq) : seq[i] = x})

\* C39: a call of add_goal that returns true has increased the count of
\* open conditions by one for every literal or timed literal (and every
\* disjunction) met in the formula; when test_only it has left the chain
\* alone, and otherwise it has put in front of the chain one open
\* condition for every literal met whose predicate is not a static
\* predicate stripped, for the step, with the time AT_START for a plain
\* literal and with its own time for a timed literal, and no other open
\* condition of a literal.
C39_OneOpenConditionPerLiteral ==
    (call.op = "add_goal" /\ Len(call.result) = 1) =>
        LET returned == call.result[1]
            reached == ReachedGoals(Cx, call.goal)
            literals == ReachedLiterals(Cx, call.goal)
            kept == SelectSeq(literals, LAMBDA g :
                        /\ ~call.test_only
                        /\ ~(Cx.strip_static_preconditions
                             /\ StaticPredicate(Cx, g.literal.pred)))
            expected == [i \in 1..Len(kept) |->
                            OpenCondition(call.step_id, kept[i].literal,
                                          kept[i].when)]
            added == SubSeq(returned.open_conds, 1,
                            Len(returned.open_conds) - Len(call.open_conds))
            found == SelectSeq(added, IsLiteralCond)
        IN returned.ok =>
              /\ returned.num_open_conds
                    = NumOpenCondsOf(call) + Len(reached)
              /\ Len(returned.open_conds) >= Len(call.open_conds)
              /\ SubSeq(returned.open_conds, Len(added) + 1,
                        Len(returned.open_conds)) = call.open_conds
              /\ Len(found) = Len(expected)
              /\ \A oc \in Range(expected) :
                    Occurrences(found, oc) = Occurrences(expected, oc)
              /\ call.test_only => Len(added) = 0

\* add_goal has admitted, not test_only, a timed literal for which it made
\* an open condition with the time of the literal.
C39_Witness ==
    /\ call.op = "add_goal"
    /\ Len(call.result) = 1
    /\ ~call.test_only
    /\ call.goal.kind = "timed"
    /\ call.result[1].ok
    /\ Len(call.result[1].open_conds) = Len(call.open_conds) + 1
    /\ call.result[1].open_conds[1].when = call.goal.when
    /\ call.goal.when # "AT_START"

(***************************************************************************)
(* Properties of the counting mode of make_link.                           *)
(***************************************************************************)
\* The steps that add_step and reuse_step, and addable_steps and
\* reusable_steps, try for the achiever of an open condition of the plan:
\* a new step of the action, unless it is a dummy action, and the steps of
\* the plan that are of the action.
CandidateSteps(p, achiever) ==
    (IF IsDummyName(achiever.action) THEN {}
     ELSE {Step(p.num_steps + 1, achiever.action)})
    \cup {s \in Range(p.steps) : s.action = achiever.action}

\* The bindings make_link asks the bindings of the plan to add for a link
\* from the effect of the step: the unifier, those of the condition of the
\* effect and, for a new step, those of the condition of its action; NULL
\* when a condition is a contradiction.
LinkBindings(cx, p, step, effect, unifier) ==
    LET cond_goal == FAnd(effect.condition, effect.link_condition)
        g1 == add_goal(cx, <<>>, 0, unifier, cond_goal, step.id, TRUE)
        g2 == IF g1.ok /\ step.id > p.num_steps
              THEN add_goal(cx, <<>>, 0, g1.new_bindings,
                            ActionOf(cx, step.action).condition, step.id,
                            TRUE)
              ELSE g1
    IN IF g2.ok THEN << g2.new_bindings >> ELSE <<>>

\* C40: for every literal open condition of a plan, every achiever of its
\* literal and every step tried for it whose effect unifies with the
\* literal, when the bindings of the link cannot be added to those of the
\* plan, so that make_link returns 0, make_link called with test_only
\* returns 0 as well.
C40_TestOnlyAgreesOnBindings ==
    \A open_cond \in Range(current_plan.open_conds) :
        IsLiteralCond(open_cond) =>
    \A achiever \in Range(literal_achievers(Cx, open_cond.condition)) :
    \A step \in CandidateSteps(current_plan, achiever) :
    \A mgu \in Range(Unify(current_plan.bindings, achiever.effect.literal,
                           step.id, open_cond.condition,
                           open_cond.step_id)) :
    \A list \in Range(LinkBindings(Cx, current_plan, step, achiever.effect,
                                   mgu)) :
        Len(BindingsAdd(current_plan.bindings, list)) = 0 =>
            /\ make_link(Cx, current_plan, step, achiever.effect,
                         open_cond.condition, open_cond, mgu, FALSE).count = 0
            /\ make_link(Cx, current_plan, step, achiever.effect,
                         open_cond.condition, open_cond, mgu, TRUE).count = 0

=============================================================================
